---- MODULE Spec2Model ----
(***************************************************************************)
(* Verification model of the infinite_chess solvers ("white pieces vs a    *)
(* lone black king").                                                      *)
(*                                                                         *)
(* The search layer (src/search) works on a Scenario: pure rules plus      *)
(* user-supplied laws and a domain.  The solvers only ever look at a state *)
(* through the scenario's move generators and predicates, so a scenario is *)
(* modelled here by the relations those calls compute over a finite set of *)
(* State values:                                                           *)
(*    rules.black_moves_with_delta, rules.white_moves, rules.is_attacked,  *)
(*    rules.is_legal_position, laws.allow_state / allow_black_move /       *)
(*    allow_white_move / allow_pass, domain.inside, white_can_pass,        *)
(*    remove_stalemates and the enumerated candidate universe.             *)
(* Init draws the scenario from a bounded family; the solver code is then  *)
(* followed loop iteration by loop iteration.                              *)
(***************************************************************************)
EXTENDS Integers, Sequences, FiniteSets, TLC

VARIABLES
    scn,        \* the Scenario under analysis (fixed during a run)
    pc,         \* position of the running solver
    trap,       \* maximal_inescapable_trap: the current candidate set `trap`
    queue,      \* initial_candidate_set: the queue `q` of ReachableFromStart
    strategy,   \* extract_white_stay_strategy: the returned map
    tracker,    \* the ResourceTracker of the running solve, or the error it returned
    cache,      \* maximal_inescapable_trap: the MoveCache `cache`
    scan,       \* maximal_inescapable_trap: the states left to scan and `to_remove`
    rounds,     \* loop iterations executed so far by the running solver
    btm_trap,   \* tempo_trap_buchi: the input set of black-to-move states
    g,          \* tempo_trap_buchi: the BuchiGraph under construction
    tempo,      \* tempo_trap_buchi_with_strategy: the returned pair, or an error
    play,       \* a play following the returned strategy
    compute_dtm,\* forced_mate_bounded: the compute_dtm argument
    m,          \* forced_mate_bounded: graph, counters, queue and DTM layers
    mate,       \* forced_mate_bounded: the returned ForcedMateResult, or an error
    bundle      \* export_bundle, load_bundle: the bundle, its files, the loaded solution

trapVars  == <<trap, queue, strategy, tracker, cache, scan>>
tempoVars == <<btm_trap, g, tempo, play>>
mateVars  == <<compute_dtm, m, mate>>
vars == <<scn, pc, rounds, trap, queue, strategy, tracker, cache, scan, btm_trap, g, tempo, play, compute_dtm, m, mate, bundle>>

(***************************************************************************)
(* Bounds of the model.                                                    *)
(***************************************************************************)
\* Number of distinct State values a scenario ranges over.
NumStates == 4
\* Number of scenarios of the family that Init draws from.
NumScenarios == 1200

State == 1..NumStates
ScenarioId == 0..(NumScenarios - 1)

\* The set of the elements of a sequence.
Range(seq) == {seq[i] : i \in 1..Len(seq)}

(***************************************************************************)
(* src/core/coord.rs                                                       *)
(***************************************************************************)
Coord_new(x, y) == [x |-> x, y |-> y]

ORIGIN == Coord_new(0, 0)

abs(v) == IF v < 0 THEN -v ELSE v

max(a, b) == IF a >= b THEN a ELSE b

chebyshev_norm(c) == max(abs(c.x), abs(c.y))

in_linf_bound(c, bound) == abs(c.x) <= bound /\ abs(c.y) <= bound

coord_add(a, b) == Coord_new(a.x + b.x, a.y + b.y)

coord_sub(a, b) == Coord_new(a.x - b.x, a.y - b.y)

coord_neg(a) == Coord_new(-a.x, -a.y)

coord_mul(a, k) == Coord_new(a.x * k, a.y * k)

\* The 8 king steps around the origin, in the order of the constant.
KING_STEPS ==
    << Coord_new(-1, -1), Coord_new(-1, 0), Coord_new(-1, 1), Coord_new(0, -1),
       Coord_new(0, 1), Coord_new(1, -1), Coord_new(1, 0), Coord_new(1, 1) >>

(***************************************************************************)
(* src/core/square.rs: a square is one machine word, x in the high half    *)
(* and y in the low half.  The model keeps the layout of the word and      *)
(* scales its halves down to HalfBits bits (32 in the source).             *)
(***************************************************************************)
HalfBits == 5

HalfRange == 2 ^ HalfBits

\* Square::NONE, the least value of the word (i64::MIN in the source).
NONE == -(2 ^ (2 * HalfBits - 1))

is_none(sq) == sq = NONE

\* ((c.x as i64) << 32) | (c.y as u32 as i64)
from_coord(c) == c.x * HalfRange + (c.y % HalfRange)

\* x: arithmetic shift right; y: the low half read as a signed number.
coord(sq) ==
    LET low == sq % HalfRange
    IN  Coord_new(sq \div HalfRange,
                  IF low >= HalfRange \div 2 THEN low - HalfRange ELSE low)

shifted(sq, delta) ==
    IF is_none(sq) THEN sq ELSE from_coord(coord_add(coord(sq), delta))

shifted_neg(sq, delta) == shifted(sq, coord_neg(delta))

\* Ord for Square: NONE first, then by (x, y).  "Less", "Equal" or "Greater".
Square_cmp(a, b) ==
    IF is_none(a) /\ is_none(b) THEN "Equal"
    ELSE IF is_none(a) THEN "Less"
    ELSE IF is_none(b) THEN "Greater"
    ELSE LET ca == coord(a)
             cb == coord(b)
         IN  IF ca.x < cb.x \/ (ca.x = cb.x /\ ca.y < cb.y) THEN "Less"
             ELSE IF ca = cb THEN "Equal"
             ELSE "Greater"

(***************************************************************************)
(* src/chess/layout.rs, src/chess/piece.rs.  Slots are numbered from 1     *)
(* here (from 0 in the source); a run is the slots start..end inclusive.   *)
(***************************************************************************)
Repeat(kind, n) == [i \in 1..n |-> kind]

\* compute_runs: the maximal stretches of equal kinds, left to right.
RECURSIVE compute_runs_from(_, _, _)
compute_runs_from(kinds, start, i) ==
    IF i > Len(kinds) + 1 THEN <<>>
    ELSE IF i = Len(kinds) + 1 \/ kinds[i] # kinds[start]
         THEN <<[start |-> start, end |-> i - 1]>> \o compute_runs_from(kinds, i, i + 1)
         ELSE compute_runs_from(kinds, start, i + 1)

compute_runs(kinds) ==
    IF kinds = <<>> THEN <<>> ELSE compute_runs_from(kinds, 1, 2)

\* PieceLayout::from_counts: K, Q..., R..., B..., N...; white_king_index 0 is None.
from_counts(white_king, queens, rooks, bishops, knights) ==
    LET kinds == (IF white_king THEN <<"King">> ELSE <<>>)
                 \o Repeat("Queen", queens) \o Repeat("Rook", rooks)
                 \o Repeat("Bishop", bishops) \o Repeat("Knight", knights)
    IN  [ kinds            |-> kinds,
          identical_runs   |-> compute_runs(kinds),
          white_king_index |-> IF white_king THEN 1 ELSE 0 ]

piece_count(layout) == Len(layout.kinds)

ROOK_DIRS == << Coord_new(1, 0), Coord_new(-1, 0), Coord_new(0, 1), Coord_new(0, -1) >>

BISHOP_DIRS == << Coord_new(1, 1), Coord_new(1, -1), Coord_new(-1, 1), Coord_new(-1, -1) >>

QUEEN_DIRS == ROOK_DIRS \o BISHOP_DIRS

KNIGHT_DELTAS ==
    << Coord_new(2, 1), Coord_new(2, -1), Coord_new(-2, 1), Coord_new(-2, -1),
       Coord_new(1, 2), Coord_new(1, -2), Coord_new(-1, 2), Coord_new(-1, -2) >>

slide_dirs(kind) ==
    CASE kind = "Queen"  -> QUEEN_DIRS
      [] kind = "Rook"   -> ROOK_DIRS
      [] kind = "Bishop" -> BISHOP_DIRS
      [] OTHER           -> <<>>

(***************************************************************************)
(* src/core/position.rs: a Position is the slice squares(), one Square per *)
(* slot of the layout.                                                     *)
(***************************************************************************)
\* slice::sort under Ord for Square, as an insertion into a sorted prefix.
RECURSIVE sort_insert(_, _)
sort_insert(sorted, sq) ==
    IF sorted = <<>> THEN <<sq>>
    ELSE IF Square_cmp(sq, Head(sorted)) = "Less"
         THEN <<sq>> \o sorted
         ELSE <<Head(sorted)>> \o sort_insert(Tail(sorted), sq)

\* Mutation: the run is left in the order it was given.
sort_left_as_given(squares) == squares

RECURSIVE sort(_)
sort(squares) ==
    IF squares = <<>> THEN <<>>
    ELSE sort_insert(sort(SubSeq(squares, 1, Len(squares) - 1)), squares[Len(squares)])

\* The slot's run in identical_runs.
run_of(layout, i) ==
    CHOOSE r \in {layout.identical_runs[k] : k \in DOMAIN layout.identical_runs} :
        r.start <= i /\ i <= r.end

\* Position::canonicalize: every run of identical pieces is sorted.
canonicalize(pos, layout) ==
    [i \in DOMAIN pos |->
        LET run == run_of(layout, i)
        IN  sort(SubSeq(pos, run.start, run.end))[i - run.start + 1]]

is_occupied_except(pos, sq, except_idx) ==
    \E i \in DOMAIN pos : i # except_idx /\ ~is_none(pos[i]) /\ pos[i] = sq

set_square(pos, idx, sq) == [pos EXCEPT ![idx] = sq]

(***************************************************************************)
(* src/chess/rules.rs: a Rules value is [layout, move_bound].              *)
(***************************************************************************)
Rules_new(layout, move_bound) == [layout |-> layout, move_bound |-> move_bound]

\* Mutation: the white king may stand next to the black king.
is_legal_position_adjacent_kings(rules, pos) ==
    /\ \A i \in DOMAIN pos : ~is_none(pos[i]) => coord(pos[i]) # ORIGIN
    /\ \A i, j \in DOMAIN pos : (i < j /\ ~is_none(pos[i])) => pos[i] # pos[j]

\* No present piece on the origin, no two present pieces on one square, and
\* the white king (if present) not adjacent to the origin.
is_legal_position(rules, pos) ==
    /\ \A i \in DOMAIN pos : ~is_none(pos[i]) => coord(pos[i]) # ORIGIN
    /\ \A i, j \in DOMAIN pos : (i < j /\ ~is_none(pos[i])) => pos[i] # pos[j]
    /\ LET k_idx == rules.layout.white_king_index
       IN  k_idx # 0 =>
             ~(~is_none(pos[k_idx]) /\ chebyshev_norm(coord(pos[k_idx])) <= 1)

signum(v) == IF v > 0 THEN 1 ELSE IF v < 0 THEN -1 ELSE 0

\* i32 division: the quotient is rounded toward zero.
i32_div(a, b) ==
    IF (a < 0) = (b < 0) THEN abs(a) \div abs(b) ELSE -(abs(a) \div abs(b))

\* [some |-> FALSE], or the unit step and the distance of v along a rook or
\* bishop line.
normalized_dir_and_distance(v) ==
    IF v.x = 0 /\ v.y # 0
    THEN [some |-> TRUE, dir |-> Coord_new(0, signum(v.y)), dist |-> abs(v.y)]
    ELSE IF v.y = 0 /\ v.x # 0
    THEN [some |-> TRUE, dir |-> Coord_new(signum(v.x), 0), dist |-> abs(v.x)]
    ELSE IF v.x # 0 /\ v.y # 0 /\ abs(v.x) = abs(v.y)
    THEN [some |-> TRUE, dir |-> Coord_new(signum(v.x), signum(v.y)), dist |-> abs(v.x)]
    ELSE [some |-> FALSE]

\* [some |-> FALSE], or the scalar s with v = s * dir.
scalar_along_dir_if_aligned(v, dir) ==
    IF dir.x = 0
    THEN IF v.x # 0 \/ dir.y = 0 THEN [some |-> FALSE]
         ELSE LET s == i32_div(v.y, dir.y)
              IN  IF s * dir.y = v.y THEN [some |-> TRUE, s |-> s] ELSE [some |-> FALSE]
    ELSE LET s == i32_div(v.x, dir.x)
         IN  IF s * dir.x = v.x /\ s * dir.y = v.y
             THEN [some |-> TRUE, s |-> s]
             ELSE [some |-> FALSE]

\* Mutation: pieces standing on the line do not block it.
rider_attacks_through(from, target, dirs, pos) ==
    LET v  == coord_sub(target, from)
        nd == normalized_dir_and_distance(v)
    IN  /\ v # ORIGIN
        /\ nd.some
        /\ \E k \in DOMAIN dirs : dirs[k] = nd.dir

\* Mutation: a rider attacks no further than it may move.
rider_attacks_within_move_bound(from, target, dirs, pos) ==
    LET v  == coord_sub(target, from)
        nd == normalized_dir_and_distance(v)
    IN  /\ v # ORIGIN
        /\ nd.some
        /\ nd.dist <= scn.rules.move_bound
        /\ \E k \in DOMAIN dirs : dirs[k] = nd.dir
        /\ \A j \in DOMAIN pos :
              (~is_none(pos[j]) /\ coord(pos[j]) # from) =>
                 LET al == scalar_along_dir_if_aligned(coord_sub(coord(pos[j]), from), nd.dir)
                 IN  ~(al.some /\ al.s > 0 /\ al.s < nd.dist)

rider_attacks(from, target, dirs, pos) ==
    LET v  == coord_sub(target, from)
        nd == normalized_dir_and_distance(v)
    IN  /\ v # ORIGIN
        /\ nd.some
        /\ \E k \in DOMAIN dirs : dirs[k] = nd.dir
        /\ \A j \in DOMAIN pos :
              (~is_none(pos[j]) /\ coord(pos[j]) # from) =>
                 LET al == scalar_along_dir_if_aligned(coord_sub(coord(pos[j]), from), nd.dir)
                 IN  ~(al.some /\ al.s > 0 /\ al.s < nd.dist)

piece_attacks(kind, from, target, pos) ==
    CASE kind = "King"   -> chebyshev_norm(coord_sub(target, from)) = 1
      [] kind = "Knight" ->
            LET d == coord_sub(target, from)
            IN  (abs(d.x) = 2 /\ abs(d.y) = 1) \/ (abs(d.x) = 1 /\ abs(d.y) = 2)
      [] kind = "Rook"   -> rider_attacks(from, target, ROOK_DIRS, pos)
      [] kind = "Bishop" -> rider_attacks(from, target, BISHOP_DIRS, pos)
      [] kind = "Queen"  -> rider_attacks(from, target, QUEEN_DIRS, pos)

\* Does any white piece attack `target` in this position?
is_attacked(rules, target, pos) ==
    \E i \in DOMAIN pos :
        /\ ~is_none(pos[i])
        /\ piece_attacks(rules.layout.kinds[i], coord(pos[i]), target, pos)

\* The position after the king step delta: the piece on delta is captured,
\* every other piece shifts by -delta, and the result is canonicalised.
black_step_next(rules, pos, delta) ==
    canonicalize([i \in DOMAIN pos |->
                     IF is_none(pos[i]) THEN pos[i]
                     ELSE IF coord(pos[i]) = delta THEN NONE
                     ELSE shifted_neg(pos[i], delta)],
                 rules.layout)

\* Mutation: the king may step onto an attacked square.
black_step_kept_into_check(rules, pos, delta) ==
    LET k_idx == rules.layout.white_king_index
    IN  /\ ~(k_idx # 0 /\ ~is_none(pos[k_idx]) /\ coord(pos[k_idx]) = delta)
        /\ is_legal_position(rules, black_step_next(rules, pos, delta))

\* The step delta is not skipped by any of the three `continue`s.
black_step_kept(rules, pos, delta) ==
    LET k_idx == rules.layout.white_king_index
        next  == black_step_next(rules, pos, delta)
    IN  /\ ~(k_idx # 0 /\ ~is_none(pos[k_idx]) /\ coord(pos[k_idx]) = delta)
        /\ is_legal_position(rules, next)
        /\ ~is_attacked(rules, ORIGIN, next)

\* The pairs (delta, next), in the order of KING_STEPS.
black_moves_with_delta(rules, pos) ==
    SelectSeq([k \in DOMAIN KING_STEPS |->
                  [delta |-> KING_STEPS[k],
                   pos   |-> black_step_next(rules, pos, KING_STEPS[k])]],
              LAMBDA mv : black_step_kept(rules, pos, mv.delta))

black_moves(rules, pos) ==
    LET mvs == black_moves_with_delta(rules, pos)
    IN  [k \in DOMAIN mvs |-> mvs[k].pos]

\* The concatenation of a sequence of sequences.
RECURSIVE Concat(_)
Concat(seqs) == IF seqs = <<>> THEN <<>> ELSE Head(seqs) \o Concat(Tail(seqs))

\* One pushed white move: the slot moved, its destination and the position
\* pushed (white_moves keeps the position only).
push_if_legal(rules, pos, i, to) ==
    LET next == canonicalize(set_square(pos, i, from_coord(to)), rules.layout)
    IN  IF is_legal_position(rules, next)
        THEN <<[idx |-> i, to |-> to, pos |-> next]>>
        ELSE <<>>

\* The King arm: the steps that do not land on or next to the origin, nor on
\* another piece.
king_arm(rules, pos, i) ==
    LET from == coord(pos[i])
    IN  Concat([k \in DOMAIN KING_STEPS |->
                  LET to == coord_add(from, KING_STEPS[k])
                  IN  IF \/ to = ORIGIN
                         \/ chebyshev_norm(to) <= 1
                         \/ is_occupied_except(pos, from_coord(to), i)
                      THEN <<>>
                      ELSE push_if_legal(rules, pos, i, to)])

\* The Knight arm.
knight_arm(rules, pos, i) ==
    LET from == coord(pos[i])
    IN  Concat([k \in DOMAIN KNIGHT_DELTAS |->
                  LET to == coord_add(from, KNIGHT_DELTAS[k])
                  IN  IF to = ORIGIN \/ is_occupied_except(pos, from_coord(to), i)
                      THEN <<>>
                      ELSE push_if_legal(rules, pos, i, to)])

\* Mutation: an occupied square or the origin is skipped and the slide goes on.
RECURSIVE slide_jumps(_, _, _, _, _)
slide_jumps(rules, pos, i, dir, step) ==
    IF step > rules.move_bound THEN <<>>
    ELSE LET to == coord_add(coord(pos[i]), coord_mul(dir, step))
         IN  (IF to = ORIGIN \/ is_occupied_except(pos, from_coord(to), i)
              THEN <<>>
              ELSE push_if_legal(rules, pos, i, to))
             \o slide_jumps(rules, pos, i, dir, step + 1)

\* The loop `for step in 1..=move_bound` of one direction, from `step` on: it
\* breaks at the origin and at an occupied square.
RECURSIVE slide(_, _, _, _, _)
slide(rules, pos, i, dir, step) ==
    IF step > rules.move_bound THEN <<>>
    ELSE LET to == coord_add(coord(pos[i]), coord_mul(dir, step))
         IN  IF to = ORIGIN THEN <<>>
             ELSE IF is_occupied_except(pos, from_coord(to), i) THEN <<>>
             ELSE push_if_legal(rules, pos, i, to) \o slide(rules, pos, i, dir, step + 1)

\* The Rook | Bishop | Queen arm.
slider_arm(rules, pos, i) ==
    LET dirs == slide_dirs(rules.layout.kinds[i])
    IN  Concat([k \in DOMAIN dirs |-> slide(rules, pos, i, dirs[k], 1)])

\* The moves pushed for slot i.
piece_arm(rules, pos, i) ==
    IF is_none(pos[i]) THEN <<>>
    ELSE CASE rules.layout.kinds[i] = "King"   -> king_arm(rules, pos, i)
           [] rules.layout.kinds[i] = "Knight" -> knight_arm(rules, pos, i)
           [] OTHER                            -> slider_arm(rules, pos, i)

\* Everything white_moves pushes after the pass, slot by slot.
white_pushes(rules, pos) ==
    Concat([i \in DOMAIN pos |-> piece_arm(rules, pos, i)])

\* All legal white moves from pos; allow_pass puts the unchanged position first.
white_moves(rules, pos, allow_pass) ==
    LET mvs == white_pushes(rules, pos)
    IN  (IF allow_pass THEN <<pos>> ELSE <<>>) \o [k \in DOMAIN mvs |-> mvs[k].pos]

\* Mutation: a check counts as a mate, whether or not the king has a move.
is_checkmate_any_check(rules, pos) == is_attacked(rules, ORIGIN, pos)

is_checkmate(rules, pos) ==
    IF ~is_attacked(rules, ORIGIN, pos) THEN FALSE
    ELSE black_moves(rules, pos) = <<>>

is_stalemate(rules, pos) ==
    IF is_attacked(rules, ORIGIN, pos) THEN FALSE
    ELSE black_moves(rules, pos) = <<>>

(***************************************************************************)
(* src/chess/bounds.rs and src/search/universe.rs: the enumerators.        *)
(***************************************************************************)
\* The (x, y) pairs of the box in the order of the two nested loops.
box_coords(bound) ==
    LET side == 2 * bound + 1
    IN  [k \in 1..(side * side) |->
            Coord_new(((k - 1) \div side) - bound, ((k - 1) % side) - bound)]

\* slice::sort_unstable under Ord for Square: each element goes to the place
\* given by the number of elements that sort before it (equal squares are
\* the same value, whichever of them comes first).
sort_unstable_rank(squares) ==
    [i \in DOMAIN squares |->
        1 + Cardinality({j \in DOMAIN squares :
                            \/ Square_cmp(squares[j], squares[i]) = "Less"
                            \/ /\ Square_cmp(squares[j], squares[i]) = "Equal"
                               /\ j < i})]

sort_unstable_placed(squares, rank) ==
    [k \in DOMAIN squares |-> squares[CHOOSE i \in DOMAIN squares : rank[i] = k]]

sort_unstable(squares) == sort_unstable_placed(squares, sort_unstable_rank(squares))

\* All squares within the bound except the origin, sorted.
squares_in_linf_ball(bound) ==
    LET all == box_coords(bound)
        kept == SelectSeq(all, LAMBDA c : ~(c.x = 0 /\ c.y = 0))
    IN  sort_unstable([k \in DOMAIN kept |-> from_coord(kept[k])])

\* choose_k: the ascending index lists of length k over the indices from
\* `start` on that are neither used nor disallowed.
RECURSIVE choose_k(_, _, _, _)
choose_k(n, free, start, k) ==
    IF k = 0 THEN {<<>>}
    ELSE UNION {{<<i>> \o rest : rest \in choose_k(n, free, i + 1, k - 1)} :
                    i \in {j \in start..n : j \in free}}

\* The callback's fill of a run: first the NONEs, then the chosen squares.
fill_run(cur, run, squares, chosen) ==
    LET len        == run.end - run.start + 1
        none_count == len - Len(chosen)
    IN  [i \in DOMAIN cur |->
            IF i < run.start \/ i > run.end THEN cur[i]
            ELSE IF i - run.start + 1 <= none_count THEN NONE
            ELSE squares[chosen[i - run.start + 1 - none_count]]]

\* rec of enumerate_positions_in_bound, from run group_idx on.
RECURSIVE bound_rec(_, _, _, _, _, _)
bound_rec(layout, squares, allow_captures, group_idx, used, cur) ==
    IF group_idx > Len(layout.identical_runs)
    THEN {canonicalize(cur, layout)}
    ELSE LET run   == layout.identical_runs[group_idx]
             kind  == layout.kinds[run.start]
             len   == run.end - run.start + 1
             free  == {i \in DOMAIN squares :
                          /\ i \notin used
                          /\ kind = "King" => chebyshev_norm(coord(squares[i])) > 1}
             min_k == IF allow_captures THEN 0 ELSE len
         IN  UNION {bound_rec(layout, squares, allow_captures, group_idx + 1,
                              used \cup Range(chosen),
                              fill_run(cur, run, squares, chosen)) :
                        chosen \in UNION {choose_k(Len(squares), free, 1, k) :
                                             k \in min_k..len}}

enumerate_positions_in_bound(layout, bound, allow_captures) ==
    bound_rec(layout, squares_in_linf_ball(bound), allow_captures, 1, {},
              [i \in 1..piece_count(layout) |-> NONE])

is_in_bound(sq, bound) == IF is_none(sq) THEN TRUE ELSE in_linf_bound(coord(sq), bound)

State_new(abs_king, pos) == [abs_king |-> abs_king, pos |-> pos]

\* rec of try_for_each_state_in_abs_box for one abs_king, from run group_idx on.
RECURSIVE abs_rec(_, _, _, _, _, _, _)
abs_rec(layout, abs_squares, abs_king, allow_captures, group_idx, used, cur_abs) ==
    IF group_idx > Len(layout.identical_runs)
    THEN LET cur_rel == [i \in DOMAIN cur_abs |->
                            IF is_none(cur_abs[i]) THEN NONE
                            ELSE from_coord(coord_sub(coord(cur_abs[i]), abs_king))]
         IN  {State_new(abs_king, canonicalize(cur_rel, layout))}
    ELSE LET run   == layout.identical_runs[group_idx]
             kind  == layout.kinds[run.start]
             len   == run.end - run.start + 1
             free  == {i \in DOMAIN abs_squares :
                          /\ i \notin used
                          /\ kind = "King" =>
                               chebyshev_norm(coord_sub(coord(abs_squares[i]), abs_king)) > 1}
             min_k == IF allow_captures THEN 0 ELSE len
         IN  UNION {abs_rec(layout, abs_squares, abs_king, allow_captures, group_idx + 1,
                            used \cup Range(chosen),
                            fill_run(cur_abs, run, abs_squares, chosen)) :
                        chosen \in UNION {choose_k(Len(abs_squares), free, 1, k) :
                                             k \in min_k..len}}

\* The states the callback of try_for_each_state_in_abs_box is called with.
try_for_each_state_in_abs_box(layout, bound, allow_captures) ==
    LET coords      == box_coords(bound)
        abs_squares == [k \in DOMAIN coords |-> from_coord(coords[k])]
        side        == 2 * bound + 1
    IN  UNION {abs_rec(layout, abs_squares, coords[king_idx], allow_captures, 1,
                       {king_idx},
                       [i \in 1..piece_count(layout) |-> NONE]) :
                  king_idx \in DOMAIN coords}

(***************************************************************************)
(* The scenario family.  Every relation of a scenario is decided slot by   *)
(* slot by a fixed scrambling of the scenario number, so that the family   *)
(* holds sparse and dense move graphs, laws that reject moves, states and  *)
(* passes, and domains that cut through the graph.                         *)
(***************************************************************************)
Square(x) == x * x

Scramble(id, k) ==
    LET x0 == ((id + 1) * 7919 + (k + 1) * 1031) % 10007
        x1 == (Square(x0) + id * 31 + k) % 10007
    IN  (Square(x1) + 12345) % 10007

\* Slot number of relation r at the pair (s, t).
Slot(r, s, t) == r * 1000 + s * 31 + t

\* Decides slot k of scenario id with probability num / den.
Draw(id, k, num, den) == (Scramble(id, k) % den) < num

\* How strict the laws and the domain of scenario id are: 0 is NoLaws with
\* AllDomain, higher levels reject more states, moves and passes.
Strictness(id) == id % 4

\* Whether a law or domain predicate of scenario id accepts at slot k.
Accepts(id, k) ==
    \/ Strictness(id) = 0
    \/ ~Draw(id, k, Strictness(id), 2 + 2 * Strictness(id))

\* Densities of the move relations change with the scenario number.
BlackDen(id) == 2 + ((id \div 4) % 3)
WhiteDen(id) == 2 + ((id \div 12) % 3)

ScenarioOf(id) ==
    LET legal    == {s \in State : Draw(id, Slot(1, s, 0), 11, 12)}
        attacked == {s \in State : Draw(id, Slot(2, s, 0), 1, 3)}
    IN  [ id               |-> id,
          \* the rules, laws and domain are given by the relations below
          kind             |-> "relations",
          \* rules.is_legal_position
          legal            |-> legal,
          \* rules.is_attacked(ORIGIN, pos)
          attacked         |-> attacked,
          \* rules.black_moves_with_delta: successors are legal positions
          \* in which the origin is not attacked
          blackRules       |-> [s \in State |->
                                  {t \in (legal \ attacked) :
                                      Draw(id, Slot(3, s, t), 1, BlackDen(id))}],
          \* rules.white_moves(pos, false): a piece changes square, so the
          \* position changes; successors are legal positions
          whiteRules       |-> [s \in State |->
                                  {t \in (legal \ {s}) :
                                      Draw(id, Slot(4, s, t), 1, WhiteDen(id))}],
          \* laws.allow_state
          allowState       |-> {s \in State : Accepts(id, Slot(5, s, 0))},
          \* laws.allow_black_move
          allowBlackMove   |-> {p \in State \X State : Accepts(id, Slot(6, p[1], p[2]))},
          \* laws.allow_white_move
          allowWhiteMove   |-> {p \in State \X State : Accepts(id, Slot(7, p[1], p[2]))},
          \* laws.allow_pass
          allowPass        |-> {s \in State : Accepts(id, Slot(8, s, 0))},
          \* domain.inside
          inside           |-> {s \in State : Accepts(id, Slot(9, s, 0))},
          \* the states the candidate enumeration walks over
          enumerated       |-> {s \in State : Draw(id, Slot(10, s, 0), 7, 8)},
          white_can_pass   |-> Draw(id, Slot(11, 0, 0), 2, 3),
          remove_stalemates |-> Draw(id, Slot(12, 0, 0), 1, 2) ]

\* Values of the variables a solver does not use or has not yet set.
NoGraph == [built |-> FALSE]
NoResult == [kind |-> "none"]
NoPlay == [on |-> FALSE]
NoStrategy == [built |-> FALSE]
NoTracker == [made |-> FALSE]
NoCache == [made |-> FALSE]
NoBundle == [kind |-> "none"]
NoScan == [on |-> FALSE]

(***************************************************************************)
(* src/scenario/mod.rs: what a solver asks of its Scenario.  A scenario of *)
(* kind "relations" answers from its relations; a scenario of kind "chess" *)
(* holds Rules, a law, a domain and flags, and answers by the chess rules  *)
(* above.  A chess State is [abs_king, pos].                               *)
(***************************************************************************)
\* iter_present: the slots whose piece is on the board.
present(pos) == {i \in DOMAIN pos : ~is_none(pos[i])}

\* LawsLike::allow_state; no law of the repository overrides the default.
allow_state(s) ==
    IF scn.kind = "chess" THEN TRUE ELSE s \in scn.allowState

\* LawsLike::allow_black_move: NoCapturesLaws, OnlyBlackDelta and
\* KeepKingInAbsBox override the default.
allow_black_move(from, to, delta) ==
    IF scn.kind = "chess"
    THEN CASE scn.laws.kind = "NoCapturesLaws" ->
                  ~\E i \in present(from.pos) : from.pos[i] = from_coord(delta)
           [] scn.laws.kind = "OnlyBlackDelta" -> delta = scn.laws.delta
           [] scn.laws.kind = "KeepKingInAbsBox" ->
                  in_linf_bound(to.abs_king, scn.laws.bound)
           [] OTHER -> TRUE
    ELSE <<from, to>> \in scn.allowBlackMove

\* LawsLike::allow_white_move; no law of the repository overrides the default.
allow_white_move(from, to) ==
    IF scn.kind = "chess" THEN TRUE ELSE <<from, to>> \in scn.allowWhiteMove

\* LawsLike::allow_pass: PassIfAnyPieceOnPositiveX overrides the default.
allow_pass(s) ==
    IF scn.kind = "chess"
    THEN CASE scn.laws.kind = "PassIfAnyPieceOnPositiveX" ->
                  \E i \in present(s.pos) : coord(s.pos[i]).x > 0
           [] OTHER -> TRUE
    ELSE s \in scn.allowPass

\* DomainLike::inside: AllDomain, BuiltinDomain::AbsBox and RookAt.
inside(s) ==
    IF scn.kind = "chess"
    THEN CASE scn.domain.kind = "AbsBox" ->
                  /\ in_linf_bound(s.abs_king, scn.domain.bound)
                  /\ \A i \in present(s.pos) :
                        in_linf_bound(coord_add(s.abs_king, coord(s.pos[i])),
                                      scn.domain.bound)
           [] scn.domain.kind = "RookAt" -> s.pos[1] = from_coord(scn.domain.at)
           [] OTHER -> TRUE
    ELSE s \in scn.inside

\* scn.rules.is_legal_position(&s.pos)
rules_is_legal_position(s) ==
    IF scn.kind = "chess" THEN is_legal_position(scn.rules, s.pos) ELSE s \in scn.legal

\* scn.rules.is_attacked(Coord::ORIGIN, &s.pos)
rules_is_attacked(s) ==
    IF scn.kind = "chess" THEN is_attacked(scn.rules, ORIGIN, s.pos) ELSE s \in scn.attacked

\* Mutation: the step is added to abs_king whether or not the king is
\* followed.
rules_black_moves_with_delta_tracked(s) ==
    IF scn.kind = "chess"
    THEN {[delta |-> mv.delta,
           to    |-> State_new(coord_add(s.abs_king, mv.delta), mv.pos)] :
             mv \in Range(black_moves_with_delta(scn.rules, s.pos))}
    ELSE {[delta |-> ORIGIN, to |-> t] : t \in scn.blackRules[s]}

\* scn.rules.black_moves_with_delta(&s.pos) with the State built from each
\* pair; the relations of a scenario do not record the step.
rules_black_moves_with_delta(s) ==
    IF scn.kind = "chess"
    THEN {[delta |-> mv.delta,
           to    |-> State_new(IF scn.track_abs_king
                               THEN coord_add(s.abs_king, mv.delta)
                               ELSE s.abs_king,
                               mv.pos)] :
             mv \in Range(black_moves_with_delta(scn.rules, s.pos))}
    ELSE {[delta |-> ORIGIN, to |-> t] : t \in scn.blackRules[s]}

\* The states try_for_each_state_in_abs_box calls back with for the
\* scenario's candidates.
abs_box_states ==
    IF scn.kind = "chess"
    THEN try_for_each_state_in_abs_box(scn.rules.layout, scn.candidates.bound,
                                       scn.candidates.allow_captures)
    ELSE scn.enumerated

\* scn.rules.white_moves(&s.pos, false) with the State built from each position.
rules_white_moves(s) ==
    IF scn.kind = "chess"
    THEN {State_new(s.abs_king, pos2) : pos2 \in Range(white_moves(scn.rules, s.pos, FALSE))}
    ELSE scn.whiteRules[s]

(***************************************************************************)
(* src/search/movegen.rs                                                   *)
(***************************************************************************)
\* Every piece of the state is within the bound of the candidate enumeration
\* (any state of a scenario of relations is).
within_candidate_bound(s) ==
    scn.kind = "chess" =>
        \A i \in DOMAIN s.pos : is_in_bound(s.pos[i], scn.candidates.bound)

\* Mutation: the enumeration bound is a wall for the king's steps.
legal_black_moves_walled(s) ==
    {mv.to : mv \in {x \in rules_black_moves_with_delta(s) :
                        /\ allow_black_move(s, x.to, x.delta)
                        /\ allow_state(x.to)
                        /\ within_candidate_bound(x.to)}}

\* Mutation: a king step that leaves the domain is not generated.
legal_black_moves_inside_domain(s) ==
    {mv.to : mv \in {x \in rules_black_moves_with_delta(s) :
                        /\ allow_black_move(s, x.to, x.delta)
                        /\ allow_state(x.to)
                        /\ inside(x.to)}}

legal_black_moves(s) ==
    {mv.to : mv \in {x \in rules_black_moves_with_delta(s) :
                        /\ allow_black_move(s, x.to, x.delta)
                        /\ allow_state(x.to)}}

\* Mutation: the pass is pushed without asking laws.allow_pass.
legal_white_moves_pass_unasked(s) ==
    (IF scn.white_can_pass THEN {s} ELSE {})
    \cup {to \in rules_white_moves(s) : /\ allow_white_move(s, to) /\ allow_state(to)}

legal_white_moves(s) ==
    (IF scn.white_can_pass /\ allow_pass(s) THEN {s} ELSE {})
    \cup {to \in rules_white_moves(s) :
            /\ allow_white_move(s, to)
            /\ allow_state(to)}

is_checkmate_with_laws(s) ==
    IF ~rules_is_attacked(s) THEN FALSE ELSE legal_black_moves(s) = {}

is_stalemate_with_laws(s) ==
    IF rules_is_attacked(s) THEN FALSE ELSE legal_black_moves(s) = {}

(***************************************************************************)
(* src/search/trap.rs: maximal_inescapable_trap                            *)
(***************************************************************************)
initial_candidate_set ==
    {s \in scn.enumerated :
        /\ s \in scn.legal
        /\ s \in scn.allowState
        /\ s \in scn.inside
        /\ ~(scn.remove_stalemates /\ is_stalemate_with_laws(s))}

\* Mutation: a reply counts wherever it lands.
prune_fails_any_reply(cur, p) ==
    \E after_black \in legal_black_moves(p) :
        legal_white_moves(after_black) = {}

\* Mutation: every reply has to land in `cur`.
prune_fails_all_replies(cur, p) ==
    \E after_black \in legal_black_moves(p) :
        \/ legal_white_moves(after_black) = {}
        \/ \E q \in legal_white_moves(after_black) : q \notin cur

\* Mutation: a state from which Black has no move fails as well.
prune_fails_without_moves(cur, p) ==
    \/ legal_black_moves(p) = {}
    \/ \E after_black \in legal_black_moves(p) :
          ~(\E q \in legal_white_moves(after_black) : q \in cur)

\* `fails` of the scan: some black move has no white reply inside `cur`.
prune_fails(cur, p) ==
    \E after_black \in legal_black_moves(p) :
        ~(\E q \in legal_white_moves(after_black) : q \in cur)

\* `to_remove` of one round of the pruning loop.
to_remove(cur) == {p \in cur : prune_fails(cur, p)}

TrapPruneRound ==
    /\ pc = "trap_prune"
    /\ to_remove(trap) # {}
    /\ trap' = trap \ to_remove(trap)
    /\ rounds' = rounds + 1
    /\ UNCHANGED <<scn, pc, queue, strategy, tracker, cache, scan, tempoVars, mateVars, bundle>>

TrapReturn ==
    /\ pc = "trap_prune"
    /\ to_remove(trap) = {}
    /\ pc' = "trap_done"
    /\ rounds' = rounds + 1
    /\ UNCHANGED <<scn, trap, queue, strategy, tracker, cache, scan, tempoVars, mateVars, bundle>>

TrapInit ==
    /\ scn \in {ScenarioOf(id) : id \in ScenarioId}
    /\ pc = "trap_prune"
    /\ trap = initial_candidate_set
    /\ queue = <<>>
    /\ tracker = NoTracker
    /\ cache = NoCache
    /\ scan = NoScan
    /\ strategy = NoStrategy
    /\ rounds = 0
    /\ btm_trap = {}
    /\ g = NoGraph
    /\ tempo = NoResult
    /\ play = NoPlay
    /\ compute_dtm = FALSE
    /\ m = NoGraph
    /\ mate = NoResult
    /\ bundle = NoBundle

TrapNext == TrapPruneRound \/ TrapReturn

SpecTrap == TrapInit /\ [][TrapNext]_vars

(***************************************************************************)
(* src/search/buchi.rs: the tempo trap as a Buchi game                     *)
(*                                                                         *)
(* Nodes are identified by their State; b_list keeps the index order of    *)
(* the black nodes (the iteration order of the input hash set), which the  *)
(* sorted successor lists and the strategy's tie-breaks follow.            *)
(***************************************************************************)

\* All index orders of a set of states.
Orders(S) ==
    {q \in [1..Cardinality(S) -> S] : \A x \in S : \E i \in 1..Cardinality(S) : q[i] = x}

\* b_index: position of a black node in b_list.
b_index(b_list, b) == CHOOSE i \in 1..Len(b_list) : b_list[i] = b

\* First element, in index order, of a sorted successor list.
first_by_index(b_list, S) ==
    CHOOSE b \in S : \A c \in S : b_index(b_list, b) <= b_index(b_list, c)

\* Mutation: a black node without a successor inside Z joins too.
white_attr_round_dead_end(a, in_z_b, in_z_w, bw_succ, wb_succ, b_list) ==
    LET joins_w == {wi \in in_z_w \ a.w :
                       \E bi \in wb_succ[wi] : bi \in in_z_b /\ bi \in a.b}
        in_a_w  == a.w \cup joins_w
        joins_b == {bi \in in_z_b \ a.b :
                       \A wi \in bw_succ[bi] : wi \in in_z_w => wi \in in_a_w}
    IN  [ b |-> a.b \cup joins_b,
          w |-> in_a_w,
          witness |-> [wi \in DOMAIN a.witness |->
                          IF wi \in joins_w
                          THEN <<first_by_index(b_list,
                                  {bi \in wb_succ[wi] : bi \in in_z_b /\ bi \in a.b})>>
                          ELSE a.witness[wi]] ]

\* One `while changed` round of attractor_white / attractor_white_with_witness.
white_attr_round(a, in_z_b, in_z_w, bw_succ, wb_succ, b_list) ==
    LET joins_w == {wi \in in_z_w \ a.w :
                       \E bi \in wb_succ[wi] : bi \in in_z_b /\ bi \in a.b}
        in_a_w  == a.w \cup joins_w
        joins_b == {bi \in in_z_b \ a.b :
                       /\ \E wi \in bw_succ[bi] : wi \in in_z_w
                       /\ \A wi \in bw_succ[bi] : wi \in in_z_w => wi \in in_a_w}
    IN  [ b |-> a.b \cup joins_b,
          w |-> in_a_w,
          witness |-> [wi \in DOMAIN a.witness |->
                          IF wi \in joins_w
                          THEN <<first_by_index(b_list,
                                  {bi \in wb_succ[wi] : bi \in in_z_b /\ bi \in a.b})>>
                          ELSE a.witness[wi]] ]

RECURSIVE white_attr_loop(_, _, _, _, _, _)
white_attr_loop(a, in_z_b, in_z_w, bw_succ, wb_succ, b_list) ==
    LET n == white_attr_round(a, in_z_b, in_z_w, bw_succ, wb_succ, b_list)
    IN  IF n.b = a.b /\ n.w = a.w
        THEN a
        ELSE white_attr_loop(n, in_z_b, in_z_w, bw_succ, wb_succ, b_list)

\* witness_w: <<>> for None, <<bi>> for Some(bi).
attractor_white_with_witness(in_z_b, in_z_w, bw_succ, wb_succ, is_accept_w, b_list) ==
    white_attr_loop([ b |-> {},
                      w |-> {wi \in in_z_w : wi \in is_accept_w},
                      witness |-> [wi \in DOMAIN wb_succ |-> <<>>] ],
                    in_z_b, in_z_w, bw_succ, wb_succ, b_list)

attractor_white(in_z_b, in_z_w, bw_succ, wb_succ, is_accept_w, b_list) ==
    LET a == attractor_white_with_witness(in_z_b, in_z_w, bw_succ, wb_succ,
                                          is_accept_w, b_list)
    IN  [b |-> a.b, w |-> a.w]

\* Mutation: a white node joins as soon as one successor is in the attractor.
black_attr_round_exists(a, in_z_b, in_z_w, bw_succ, wb_succ) ==
    LET in_a_b == a.b \cup {bi \in in_z_b \ a.b :
                               \E wi \in bw_succ[bi] : wi \in in_z_w /\ wi \in a.w}
        in_a_w == a.w \cup {wi \in in_z_w \ a.w :
                               \E bi \in wb_succ[wi] : bi \in in_z_b /\ bi \in in_a_b}
    IN  [b |-> in_a_b, w |-> in_a_w]

\* One `while changed` round of attractor_black.
black_attr_round(a, in_z_b, in_z_w, bw_succ, wb_succ) ==
    LET in_a_b == a.b \cup {bi \in in_z_b \ a.b :
                               \E wi \in bw_succ[bi] : wi \in in_z_w /\ wi \in a.w}
        in_a_w == a.w \cup {wi \in in_z_w \ a.w :
                               /\ \E bi \in wb_succ[wi] : bi \in in_z_b
                               /\ \A bi \in wb_succ[wi] : bi \in in_z_b => bi \in in_a_b}
    IN  [b |-> in_a_b, w |-> in_a_w]

RECURSIVE black_attr_loop(_, _, _, _, _)
black_attr_loop(a, in_z_b, in_z_w, bw_succ, wb_succ) ==
    LET n == black_attr_round(a, in_z_b, in_z_w, bw_succ, wb_succ)
    IN  IF n = a THEN a ELSE black_attr_loop(n, in_z_b, in_z_w, bw_succ, wb_succ)

\* Mutation: the attractor is seeded with the black targets only.
attractor_black_from_black_targets(in_z_b, in_z_w, bw_succ, wb_succ, target_b, target_w) ==
    black_attr_loop([ b |-> {bi \in in_z_b : bi \in target_b},
                      w |-> {} ],
                    in_z_b, in_z_w, bw_succ, wb_succ)

attractor_black(in_z_b, in_z_w, bw_succ, wb_succ, target_b, target_w) ==
    black_attr_loop([ b |-> {bi \in in_z_b : bi \in target_b},
                      w |-> {wi \in in_z_w : wi \in target_w} ],
                    in_z_b, in_z_w, bw_succ, wb_succ)

\* Mutation: the scenario's white_can_pass is not consulted.
is_accept_by_law_only(b_set, wpos) ==
    /\ allow_pass(wpos)
    /\ wpos \in b_set

\* Acceptance set F: a pass is possible at wpos and stays in btm_trap.
is_accept(b_set, wpos) ==
    /\ scn.white_can_pass
    /\ allow_pass(wpos)
    /\ wpos \in b_set

\* compute_winning_region up to the start of its loop: the graph and Z = all nodes.
build_graph(b_list) ==
    LET b_set  == Range(b_list)
        w_list == UNION {legal_black_moves(bpos) : bpos \in b_set}
    IN  [ built       |-> TRUE,
          b_list      |-> b_list,
          w_list      |-> w_list,
          bw_succ     |-> [bpos \in b_set |-> legal_black_moves(bpos)],
          wb_succ     |-> [wpos \in w_list |->
                              {bnext \in legal_white_moves(wpos) : bnext \in b_set}],
          is_accept_w |-> {wpos \in w_list : is_accept(b_set, wpos)},
          in_z_b      |-> b_set,
          in_z_w      |-> w_list ]

\* X of one iteration of the loop: Attr_black(Z \ Attr_white(F)) within Z.
buchi_removed(gr) ==
    LET y == attractor_white(gr.in_z_b, gr.in_z_w, gr.bw_succ, gr.wb_succ,
                             gr.is_accept_w, gr.b_list)
    IN  attractor_black(gr.in_z_b, gr.in_z_w, gr.bw_succ, gr.wb_succ,
                        gr.in_z_b \ y.b, gr.in_z_w \ y.w)

\* Mutation: the winning white nodes are collected instead of the black ones.
extract_b_set_from_w_list(gr) == {p \in gr.w_list : p \in gr.in_z_w}

extract_b_set(gr) == {p \in Range(gr.b_list) : p \in gr.in_z_b}

\* Successors of a white node inside Z, in index order.
succ_in_z(gr, wi) == {bi \in gr.wb_succ[wi] : bi \in gr.in_z_b}

\* extract_tempo_strategy fails on a white node of Z without a successor in Z.
strategy_error(gr) == \E wi \in gr.in_z_w : succ_in_z(gr, wi) = {}

\* Mutation: the attractor witness is ignored, the first successor is taken.
extract_tempo_strategy_first(gr) ==
    [wi \in gr.in_z_w |->
        IF wi \in gr.is_accept_w /\ wi \in Range(gr.b_list) /\ wi \in gr.in_z_b
        THEN wi
        ELSE first_by_index(gr.b_list, succ_in_z(gr, wi))]

extract_tempo_strategy(gr) ==
    LET a == attractor_white_with_witness(gr.in_z_b, gr.in_z_w, gr.bw_succ,
                                          gr.wb_succ, gr.is_accept_w, gr.b_list)
        first(wi) == first_by_index(gr.b_list, succ_in_z(gr, wi))
    IN  [wi \in gr.in_z_w |->
            IF wi \in gr.is_accept_w
            THEN IF wi \in Range(gr.b_list) /\ wi \in gr.in_z_b THEN wi ELSE first(wi)
            ELSE IF wi \in a.w
                 THEN IF a.witness[wi] # <<>> /\ a.witness[wi][1] \in gr.in_z_b
                      THEN a.witness[wi][1]
                      ELSE first(wi)
                 ELSE first(wi)]

TempoBuild ==
    /\ pc = "tempo_build"
    /\ \E b_list \in Orders(btm_trap) : g' = build_graph(b_list)
    /\ pc' = "tempo_iter"
    /\ UNCHANGED <<scn, rounds, trapVars, btm_trap, tempo, play, mateVars, bundle>>

TempoIter ==
    /\ pc = "tempo_iter"
    /\ LET x == buchi_removed(g)
       IN  /\ x.b # {} \/ x.w # {}
           /\ g' = [g EXCEPT !.in_z_b = g.in_z_b \ x.b, !.in_z_w = g.in_z_w \ x.w]
    /\ rounds' = rounds + 1
    /\ UNCHANGED <<scn, pc, trapVars, btm_trap, tempo, play, mateVars, bundle>>

TempoBreak ==
    /\ pc = "tempo_iter"
    /\ LET x == buchi_removed(g) IN x.b = {} /\ x.w = {}
    /\ rounds' = rounds + 1
    /\ pc' = "tempo_done"
    /\ tempo' = IF strategy_error(g)
                THEN [kind |-> "err", set |-> extract_b_set(g)]
                ELSE [kind |-> "ok", set |-> extract_b_set(g),
                      sigma |-> extract_tempo_strategy(g)]
    /\ UNCHANGED <<scn, trapVars, btm_trap, g, play, mateVars, bundle>>

TempoInit ==
    /\ scn \in {ScenarioOf(id) : id \in ScenarioId}
    /\ pc = "tempo_build"
    /\ trap = {}
    /\ queue = <<>>
    /\ tracker = NoTracker
    /\ cache = NoCache
    /\ scan = NoScan
    /\ strategy = NoStrategy
    /\ rounds = 0
    /\ btm_trap \in SUBSET State
    /\ g = NoGraph
    /\ tempo = NoResult
    /\ play = NoPlay
    /\ compute_dtm = FALSE
    /\ m = NoGraph
    /\ mate = NoResult
    /\ bundle = NoBundle

TempoNext == TempoBuild \/ TempoIter \/ TempoBreak

SpecTempo == TempoInit /\ [][TempoNext]_vars

(***************************************************************************)
(* A play that follows the strategy returned by                            *)
(* tempo_trap_buchi_with_strategy: it starts at a state of the returned    *)
(* set, Black plays any legal move and White answers with the strategy.    *)
(***************************************************************************)
PlayStart ==
    /\ pc = "tempo_done"
    /\ tempo.kind = "ok"
    /\ ~play.on
    /\ \E b \in tempo.set : play' = [on |-> TRUE, turn |-> "black", pos |-> b]
    /\ UNCHANGED <<scn, pc, rounds, trapVars, btm_trap, g, tempo, mateVars, bundle>>

PlayBlack ==
    /\ play.on
    /\ play.turn = "black"
    /\ \E w \in legal_black_moves(play.pos) :
          play' = [on |-> TRUE, turn |-> "white", pos |-> w]
    /\ UNCHANGED <<scn, pc, rounds, trapVars, btm_trap, g, tempo, mateVars, bundle>>

PlayWhite ==
    /\ play.on
    /\ play.turn = "white"
    /\ play.pos \in DOMAIN tempo.sigma
    /\ play' = [on |-> TRUE, turn |-> "black", pos |-> tempo.sigma[play.pos]]
    /\ UNCHANGED <<scn, pc, rounds, trapVars, btm_trap, g, tempo, mateVars, bundle>>

PlayNext == PlayStart \/ PlayBlack \/ PlayWhite

\* The plays of the claim are infinite: a side to move that can move, moves.
SpecTempoPlay ==
    /\ TempoInit
    /\ [][TempoNext \/ PlayNext]_vars
    /\ WF_vars(PlayBlack \/ PlayWhite)

(***************************************************************************)
(* src/search/forced_mate.rs: forced mate inside a bounded universe        *)
(*                                                                         *)
(* `placements` keeps the index order of the universe (the iteration order *)
(* of the hash set); the sorted successor and predecessor lists and the    *)
(* work queue follow it.  Nodes are identified by their State.             *)
(***************************************************************************)
\* u32::MAX, the `inf` of compute_dtm_layers.  It does not fit the model
\* checker's integers: the all-ones word is written -1 and is ordered as the
\* largest value by the u32 operators below.
inf == -1

u32_lt(a, b) == IF a = inf THEN FALSE ELSE IF b = inf THEN TRUE ELSE a < b

u32_min(a, b) == IF u32_lt(b, a) THEN b ELSE a

\* Mutation: the smaller value is kept.
u32_max_keeps_smaller(a, b) == IF u32_lt(a, b) THEN a ELSE b

u32_max(a, b) == IF u32_lt(a, b) THEN b ELSE a

\* Mutation: the ply is not counted.
saturating_add_0(v) == v

\* v.saturating_add(1); the DTM values of a finite universe stay far below u32::MAX.
saturating_add_1(v) == IF v = inf THEN inf ELSE v + 1

\* The members of S as a sorted, deduplicated index list.
RECURSIVE in_index_order(_, _)
in_index_order(placements, S) ==
    IF placements = <<>>
    THEN <<>>
    ELSE LET rest == in_index_order(Tail(placements), S)
         IN  IF Head(placements) \in S THEN <<Head(placements)>> \o rest ELSE rest

\* The universe: the enumerated box states that pass the three filters.
mate_universe ==
    {s \in abs_box_states :
        /\ rules_is_legal_position(s)
        /\ allow_state(s)
        /\ inside(s)}

\* Mutation: a move out of the universe is not noticed.
black_has_escape_never(U, p) == FALSE

\* Some legal black move of p leaves the universe.
black_has_escape(U, p) == \E wpos \in legal_black_moves(p) : wpos \notin U

\* Mate terminal: no escape, no in-universe move, and in check.
is_mate_terminal(U, bi) ==
    /\ ~black_has_escape(U, bi)
    /\ {wpos \in legal_black_moves(bi) : wpos \in U} = {}
    /\ rules_is_attacked(bi)

Node(side, i) == [side |-> side, i |-> i]

\* forced_mate_bounded up to the start of the attractor loop.
build_mate(placements) ==
    LET U       == Range(placements)
        bw_succ == [p \in U |-> {wpos \in legal_black_moves(p) : wpos \in U}]
        wb_succ == [p \in U |-> {bpos \in legal_white_moves(p) : bpos \in U}]
        escape  == {p \in U : black_has_escape(U, p)}
        mates   == {bi \in U : is_mate_terminal(U, bi)}
        first_q == in_index_order(placements, mates)
    IN  [ built            |-> TRUE,
          placements       |-> placements,
          bw_succ          |-> bw_succ,
          wb_succ          |-> wb_succ,
          black_has_escape |-> escape,
          pred_b_of_w      |-> [wi \in U |-> {bi \in U : wi \in bw_succ[bi]}],
          pred_w_of_b      |-> [bi \in U |-> {wi \in U : bi \in wb_succ[wi]}],
          is_mate          |-> mates,
          win_b            |-> mates,
          win_w            |-> {},
          remaining_nonwin_w_succ |->
              [bi \in U |-> Cardinality(bw_succ[bi])
                              + (IF bi \in escape THEN 1 ELSE 0)],
          q                |-> [i \in 1..Len(first_q) |-> Node("Black", first_q[i])],
          dtm_b            |-> [bi \in U |-> inf],
          dtm_w            |-> [wi \in U |-> inf] ]

\* Node::Black(bi) popped: every predecessor white node not yet winning wins.
pop_black(mm, bi) ==
    LET new_w == {wi \in mm.pred_w_of_b[bi] : wi \notin mm.win_w}
        pushed == in_index_order(mm.placements, new_w)
    IN  [mm EXCEPT !.win_w = mm.win_w \cup new_w,
                   !.q = Tail(mm.q)
                         \o [i \in 1..Len(pushed) |-> Node("White", pushed[i])]]

\* The counter of a predecessor after one more of its successors has won.
decremented(c) == IF c > 0 THEN c - 1 ELSE c

\* Mutation: the counter is compared one too early.
wins_at_counter_one(mm, bi, c) == c <= 1 /\ mm.bw_succ[bi] # {}

\* A black predecessor wins once its counter is 0 and it has an in-universe move.
wins_at_counter(mm, bi, c) == c = 0 /\ mm.bw_succ[bi] # {}

\* Node::White(wi) popped: the counters of its predecessors go down.
pop_white(mm, wi) ==
    LET touched == {bi \in mm.pred_b_of_w[wi] : bi \notin mm.win_b}
        counter == [bi \in DOMAIN mm.remaining_nonwin_w_succ |->
                       IF bi \in touched
                       THEN decremented(mm.remaining_nonwin_w_succ[bi])
                       ELSE mm.remaining_nonwin_w_succ[bi]]
        new_b   == {bi \in touched : wins_at_counter(mm, bi, counter[bi])}
        pushed  == in_index_order(mm.placements, new_b)
    IN  [mm EXCEPT !.remaining_nonwin_w_succ = counter,
                   !.win_b = mm.win_b \cup new_b,
                   !.q = Tail(mm.q)
                         \o [i \in 1..Len(pushed) |-> Node("Black", pushed[i])]]

\* `best` of a white node: the fold of min over its winning successors, from inf.
RECURSIVE fold_min(_, _)
fold_min(best, V) ==
    IF V = {} THEN best
    ELSE LET v == CHOOSE x \in V : TRUE IN fold_min(u32_min(best, v), V \ {v})

\* `max_v` of a black node: the fold of max from 0, inf as soon as one is inf.
RECURSIVE fold_max(_, _)
fold_max(max_v, V) ==
    IF inf \in V THEN inf
    ELSE IF V = {} THEN max_v
    ELSE LET v == CHOOSE x \in V : TRUE IN fold_max(u32_max(max_v, v), V \ {v})

white_cand(mm, dtm_b, wi) ==
    LET best == fold_min(inf, {dtm_b[bi] : bi \in {x \in mm.wb_succ[wi] : x \in mm.win_b}})
    IN  IF best = inf THEN inf ELSE saturating_add_1(best)

black_cand(mm, dtm_w, bi) ==
    LET max_v == fold_max(0, {dtm_w[wi] : wi \in mm.bw_succ[bi]})
    IN  IF max_v = inf THEN inf ELSE saturating_add_1(max_v)

\* The error, if any, that one pass over the black nodes returns.
dtm_round_error(mm) ==
    IF \E bi \in mm.win_b \ mm.is_mate : mm.bw_succ[bi] = {}
    THEN "DTM requested but found a winning non-mate black node with no moves"
    ELSE IF \E bi \in mm.win_b \ mm.is_mate : \E wi \in mm.bw_succ[bi] : wi \notin mm.win_w
    THEN "DTM requested but winning black node has non-winning successor"
    ELSE ""

\* One iteration of the DTM loop: the white pass, then the black pass.
dtm_round(mm) ==
    LET dtm_w == [wi \in DOMAIN mm.dtm_w |->
                     IF wi \in mm.win_w /\ u32_lt(white_cand(mm, mm.dtm_b, wi), mm.dtm_w[wi])
                     THEN white_cand(mm, mm.dtm_b, wi)
                     ELSE mm.dtm_w[wi]]
        dtm_b == [bi \in DOMAIN mm.dtm_b |->
                     IF /\ bi \in mm.win_b
                        /\ bi \notin mm.is_mate
                        /\ u32_lt(black_cand(mm, dtm_w, bi), mm.dtm_b[bi])
                     THEN black_cand(mm, dtm_w, bi)
                     ELSE mm.dtm_b[bi]]
    IN  [mm EXCEPT !.dtm_w = dtm_w, !.dtm_b = dtm_b]

\* The extraction after the loop: the DTM map, or the error it returns.
dtm_extract(mm) ==
    IF \E bi \in mm.win_b : mm.dtm_b[bi] = inf
    THEN [kind |-> "err", reason |-> "DTM did not converge for all winning nodes"]
    ELSE IF \E bi \in mm.win_b : mm.dtm_b[bi] = 0 /\ ~rules_is_attacked(bi)
    THEN [kind |-> "err",
          reason |-> "DTM map contains a depth-0 node that is not in check"]
    ELSE [kind |-> "ok", winning_btm |-> mm.win_b, has_dtm |-> TRUE,
          dtm |-> [bi \in mm.win_b |-> mm.dtm_b[bi]]]

MateBuild ==
    /\ pc = "mate_build"
    /\ \E placements \in Orders(mate_universe) : m' = build_mate(placements)
    /\ pc' = "mate_attractor"
    /\ UNCHANGED <<scn, rounds, trapVars, tempoVars, compute_dtm, mate, bundle>>

MateAttractorStep ==
    /\ pc = "mate_attractor"
    /\ m.q # <<>>
    /\ m' = IF Head(m.q).side = "Black"
            THEN pop_black(m, Head(m.q).i)
            ELSE pop_white(m, Head(m.q).i)
    /\ rounds' = rounds + 1
    /\ UNCHANGED <<scn, pc, trapVars, tempoVars, compute_dtm, mate, bundle>>

\* The queue is empty and no DTM was asked for: the result is the winning set.
MateReturn ==
    /\ pc = "mate_attractor"
    /\ m.q = <<>>
    /\ ~compute_dtm
    /\ pc' = "mate_done"
    /\ mate' = [kind |-> "ok", winning_btm |-> m.win_b, has_dtm |-> FALSE]
    /\ UNCHANGED <<scn, rounds, trapVars, tempoVars, compute_dtm, m, bundle>>

\* The queue is empty: compute_dtm_layers starts with dtm = 0 on the mates.
MateDtmStart ==
    /\ pc = "mate_attractor"
    /\ m.q = <<>>
    /\ compute_dtm
    /\ pc' = "mate_dtm"
    /\ m' = [m EXCEPT !.dtm_b = [bi \in DOMAIN m.dtm_b |->
                                    IF bi \in m.win_b /\ bi \in m.is_mate
                                    THEN 0 ELSE inf]]
    /\ rounds' = 0
    /\ UNCHANGED <<scn, trapVars, tempoVars, compute_dtm, mate, bundle>>

\* An iteration of the DTM loop that changes a value.
MateDtmRound ==
    /\ pc = "mate_dtm"
    /\ dtm_round_error(m) = ""
    /\ dtm_round(m) # m
    /\ m' = dtm_round(m)
    /\ rounds' = rounds + 1
    /\ UNCHANGED <<scn, pc, trapVars, tempoVars, compute_dtm, mate, bundle>>

\* The last iteration: an error, or no change and the extraction.
MateDtmReturn ==
    /\ pc = "mate_dtm"
    /\ dtm_round_error(m) # "" \/ dtm_round(m) = m
    /\ pc' = "mate_done"
    /\ mate' = IF dtm_round_error(m) # ""
               THEN [kind |-> "err", reason |-> dtm_round_error(m)]
               ELSE dtm_extract(m)
    /\ rounds' = rounds + 1
    /\ UNCHANGED <<scn, trapVars, tempoVars, compute_dtm, m, bundle>>

MateInit ==
    /\ scn \in {ScenarioOf(id) : id \in ScenarioId}
    /\ pc = "mate_build"
    /\ trap = {}
    /\ queue = <<>>
    /\ tracker = NoTracker
    /\ cache = NoCache
    /\ scan = NoScan
    /\ strategy = NoStrategy
    /\ rounds = 0
    /\ btm_trap = {}
    /\ g = NoGraph
    /\ tempo = NoResult
    /\ play = NoPlay
    /\ compute_dtm \in BOOLEAN
    /\ m = NoGraph
    /\ mate = NoResult
    /\ bundle = NoBundle

MateNext ==
    \/ MateBuild
    \/ MateAttractorStep
    \/ MateReturn
    \/ MateDtmStart
    \/ MateDtmRound
    \/ MateDtmReturn

SpecMate == MateInit /\ [][MateNext]_vars

(***************************************************************************)
(* The chess scenarios: Rules, candidates, domain and laws as the tests    *)
(* and the built-in scenarios of the repository build them.                *)
(***************************************************************************)
\* Pieces further than MaxCoord from the black king are not followed.
MaxCoord == 2

ChessScenario(name, layout, move_bound, white_can_pass, track_abs_king, candidates, domain, laws) ==
    [ kind              |-> "chess",
      name              |-> name,
      rules             |-> Rules_new(layout, move_bound),
      white_can_pass    |-> white_can_pass,
      track_abs_king    |-> track_abs_king,
      candidates        |-> candidates,
      domain            |-> domain,
      laws              |-> laws,
      remove_stalemates |-> FALSE ]

InLinfBound(bound, allow_captures) ==
    [mode |-> "InLinfBound", bound |-> bound, allow_captures |-> allow_captures]

InBox(bound, allow_captures) ==
    [mode |-> "InBox", bound |-> bound, allow_captures |-> allow_captures]

AllDomain == [kind |-> "All"]

NoLaws == [kind |-> "NoLaws"]

ChessScenarios ==
    { ChessScenario("king_rook", from_counts(TRUE, 0, 1, 0, 0), 2, TRUE, FALSE,
                    InLinfBound(1, FALSE), AllDomain, NoLaws),
      ChessScenario("two_rooks", from_counts(FALSE, 0, 2, 0, 0), 2, FALSE, FALSE,
                    InLinfBound(1, TRUE), AllDomain, [kind |-> "NoCapturesLaws"]),
      ChessScenario("queen_bishop", from_counts(FALSE, 1, 0, 1, 0), 1, TRUE, FALSE,
                    InLinfBound(1, TRUE), AllDomain,
                    [kind |-> "PassIfAnyPieceOnPositiveX"]),
      ChessScenario("king_bishop_knight", from_counts(TRUE, 0, 0, 1, 1), 2, TRUE, FALSE,
                    InLinfBound(1, FALSE), AllDomain, NoLaws),
      ChessScenario("queen_two_knights", from_counts(FALSE, 1, 0, 0, 2), 2, FALSE, FALSE,
                    InLinfBound(1, TRUE), AllDomain, NoLaws),
      ChessScenario("rook_abs_box", from_counts(FALSE, 0, 1, 0, 0), 2, TRUE, TRUE,
                    InBox(1, TRUE), [kind |-> "AbsBox", bound |-> 1],
                    [kind |-> "KeepKingInAbsBox", bound |-> 1]),
      ChessScenario("rook_at", from_counts(FALSE, 0, 1, 0, 0), 1, FALSE, FALSE,
                    InLinfBound(2, FALSE), [kind |-> "RookAt", at |-> Coord_new(2, 1)],
                    [kind |-> "OnlyBlackDelta", delta |-> Coord_new(1, 0)]) }

\* The squares a caller may hand over in a FromStates list: anything,
\* including the origin, a square twice and NONE.
RawSquares(bound) ==
    {NONE} \cup {from_coord(c) : c \in Range(box_coords(bound))}

RawStates ==
    {State_new(ORIGIN, squares) :
        squares \in [1..piece_count(scn.rules.layout) -> RawSquares(scn.candidates.bound)]}

\* Every piece and the king's anchor are within MaxCoord.
InBoard(s) ==
    /\ in_linf_bound(s.abs_king, MaxCoord)
    /\ \A i \in present(s.pos) : in_linf_bound(coord(s.pos[i]), MaxCoord)

Side == {"Black", "White"}

\* A caller hands over a state of its own making (FromStates).
ChessFromStates ==
    /\ pc = "chess_start"
    /\ \E s0 \in RawStates : play' = [on |-> FALSE, raw |-> s0]
    /\ pc' = "chess_raw"
    /\ UNCHANGED <<scn, rounds, trapVars, btm_trap, g, tempo, mateVars, bundle>>

\* The FromStates arm: the position is canonicalised and dropped if illegal.
ChessCanonicalize ==
    /\ pc = "chess_raw"
    /\ LET pos == canonicalize(play.raw.pos, scn.rules.layout)
       IN  IF is_legal_position(scn.rules, pos)
           THEN /\ pc' = "chess_play"
                /\ \E to_move \in Side :
                      play' = [on |-> TRUE, turn |-> to_move,
                               pos |-> State_new(play.raw.abs_king, pos)]
           ELSE /\ pc' = "chess_rejected"
                /\ play' = play
    /\ UNCHANGED <<scn, rounds, trapVars, btm_trap, g, tempo, mateVars, bundle>>

\* A position emitted by enumerate_positions_in_bound.
ChessEnumerate ==
    /\ pc = "chess_start"
    /\ scn.candidates.mode = "InLinfBound"
    /\ \E pos \in enumerate_positions_in_bound(scn.rules.layout, scn.candidates.bound,
                                               scn.candidates.allow_captures) :
       \E to_move \in Side :
          play' = [on |-> TRUE, turn |-> to_move, pos |-> State_new(ORIGIN, pos)]
    /\ pc' = "chess_play"
    /\ UNCHANGED <<scn, rounds, trapVars, btm_trap, g, tempo, mateVars, bundle>>

\* A state emitted by try_for_each_state_in_abs_box.
ChessEnumerateAbs ==
    /\ pc = "chess_start"
    /\ scn.candidates.mode = "InBox"
    /\ \E s \in abs_box_states : \E to_move \in Side :
          play' = [on |-> TRUE, turn |-> to_move, pos |-> s]
    /\ pc' = "chess_play"
    /\ UNCHANGED <<scn, rounds, trapVars, btm_trap, g, tempo, mateVars, bundle>>

\* Black plays one of legal_black_moves.
ChessBlack ==
    /\ pc = "chess_play"
    /\ play.turn = "Black"
    /\ \E to \in legal_black_moves(play.pos) :
          /\ InBoard(to)
          /\ play' = [on |-> TRUE, turn |-> "White", pos |-> to]
    /\ UNCHANGED <<scn, pc, rounds, trapVars, btm_trap, g, tempo, mateVars, bundle>>

\* White plays one of legal_white_moves.
ChessWhite ==
    /\ pc = "chess_play"
    /\ play.turn = "White"
    /\ \E to \in legal_white_moves(play.pos) :
          /\ InBoard(to)
          /\ play' = [on |-> TRUE, turn |-> "Black", pos |-> to]
    /\ UNCHANGED <<scn, pc, rounds, trapVars, btm_trap, g, tempo, mateVars, bundle>>

ChessInit ==
    /\ scn \in ChessScenarios
    /\ pc = "chess_start"
    /\ trap = {}
    /\ queue = <<>>
    /\ tracker = NoTracker
    /\ cache = NoCache
    /\ scan = NoScan
    /\ strategy = NoStrategy
    /\ rounds = 0
    /\ btm_trap = {}
    /\ g = NoGraph
    /\ tempo = NoResult
    /\ play = NoPlay
    /\ compute_dtm = FALSE
    /\ m = NoGraph
    /\ mate = NoResult
    /\ bundle = NoBundle

ChessNext ==
    \/ ChessFromStates
    \/ ChessCanonicalize
    \/ ChessEnumerate
    \/ ChessEnumerateAbs
    \/ ChessBlack
    \/ ChessWhite

SpecChess == ChessInit /\ [][ChessNext]_vars

(***************************************************************************)
(* src/search/trap.rs: maximal_inescapable_trap from validate() on, with   *)
(* initial_candidate_set followed arm by arm on chess scenarios.           *)
(***************************************************************************)
FromStates(states) == [mode |-> "FromStates", states |-> states]

ReachableFromStart(max_queue) == [mode |-> "ReachableFromStart", max_queue |-> max_queue]

StartState(to_move, state) == [to_move |-> to_move, state |-> state]

\* The scenario with its start and remove_stalemates fields set.
WithStart(sc, start, remove_stalemates) ==
    [f \in DOMAIN sc \cup {"start"} |->
        CASE f = "start"             -> start
          [] f = "remove_stalemates" -> remove_stalemates
          [] OTHER                   -> sc[f]]

\* Scenario::is_stalemate_under_laws.
\* Mutation: the laws are not asked.
is_stalemate_under_rules_only(s) ==
    IF rules_is_attacked(s) THEN FALSE
    ELSE rules_black_moves_with_delta(s) = {}

is_stalemate_under_laws(s) ==
    IF rules_is_attacked(s) THEN FALSE
    ELSE ~\E mv \in rules_black_moves_with_delta(s) :
             allow_black_move(s, mv.to, mv.delta) /\ allow_state(mv.to)

\* Mutation: the pieces of the start are not held against the L-infinity bound.
validate_without_bound ==
    LET s == scn.start.state
    IN  /\ ~(~scn.track_abs_king /\ s.abs_king # ORIGIN)
        /\ rules_is_legal_position(s)
        /\ allow_state(s)
        /\ inside(s)
        /\ ~(/\ scn.remove_stalemates
             /\ scn.start.to_move = "Black"
             /\ is_stalemate_under_laws(s))

\* Scenario::validate: TRUE for Ok(()), FALSE for Err(InvalidScenario).
validate ==
    LET s == scn.start.state
    IN  /\ ~(~scn.track_abs_king /\ s.abs_king # ORIGIN)
        /\ rules_is_legal_position(s)
        /\ allow_state(s)
        /\ inside(s)
        /\ scn.candidates.mode = "InLinfBound" =>
              \A i \in DOMAIN s.pos : is_in_bound(s.pos[i], scn.candidates.bound)
        /\ ~(/\ scn.remove_stalemates
             /\ scn.start.to_move = "Black"
             /\ is_stalemate_under_laws(s))

\* legal_black_moves as the Vec it returns, in the order of KING_STEPS.
legal_black_moves_vec(s) ==
    LET mvs == black_moves_with_delta(scn.rules, s.pos)
        tos == [k \in DOMAIN mvs |->
                  [delta |-> mvs[k].delta,
                   to    |-> State_new(IF scn.track_abs_king
                                       THEN coord_add(s.abs_king, mvs[k].delta)
                                       ELSE s.abs_king,
                                       mvs[k].pos)]]
        out == SelectSeq(tos, LAMBDA x : /\ allow_black_move(s, x.to, x.delta)
                                         /\ allow_state(x.to))
    IN  [k \in DOMAIN out |-> out[k].to]

\* legal_white_moves as the Vec it returns: the pass first, then the moves in
\* the order of white_moves.
legal_white_moves_vec(s) ==
    LET wm == white_moves(scn.rules, s.pos, FALSE)
    IN  (IF scn.white_can_pass /\ allow_pass(s) THEN <<s>> ELSE <<>>)
        \o SelectSeq([k \in DOMAIN wm |-> State_new(s.abs_king, wm[k])],
                     LAMBDA to : allow_white_move(s, to) /\ allow_state(to))

\* Mutation: the domain is not asked.
candidate_kept_any_domain(s) ==
    /\ rules_is_legal_position(s)
    /\ allow_state(s)
    /\ ~(scn.remove_stalemates /\ is_stalemate_with_laws(s))

\* The four tests a state passes before `trap.insert(s)` in the InLinfBound,
\* InBox and FromStates arms.
candidate_kept(s) ==
    /\ rules_is_legal_position(s)
    /\ allow_state(s)
    /\ inside(s)
    /\ ~(scn.remove_stalemates /\ is_stalemate_with_laws(s))

\* A set of states of a scenario of relations as a Vec, in ascending order.
RECURSIVE ascending(_)
ascending(set) ==
    IF set = {} THEN <<>>
    ELSE LET least == CHOOSE x \in set : \A y \in set : x <= y
         IN  <<least>> \o ascending(set \ {least})

\* The Vec `replies`: the pass first, then the piece moves.
replies_vec(w) ==
    IF scn.kind = "chess" THEN legal_white_moves_vec(w)
    ELSE (IF w \in legal_white_moves(w) THEN <<w>> ELSE <<>>)
         \o ascending(legal_white_moves(w) \ {w})

(***************************************************************************)
(* src/search/resources.rs: ResourceTracker.  A tracker is the pair of     *)
(* limits and counts; `failed` holds the SearchError a `?` has returned.   *)
(* The u64 counters are scaled down to CounterBits bits.  The try_reserve  *)
(* guards are taken to succeed.                                            *)
(***************************************************************************)
CounterBits == 6

U64_MAX == 2 ^ CounterBits - 1

u64_saturating_add(a, b) == IF a + b > U64_MAX THEN U64_MAX ELSE a + b

u64_saturating_sub(a, b) == IF a < b THEN 0 ELSE a - b

NoError == [kind |-> "none"]

ResourceCounts_default ==
    [states |-> 0, edges |-> 0, cache_entries |-> 0, cached_moves |-> 0, runtime_steps |-> 0]

ResourceLimits(max_states, max_edges, max_cache_entries, max_cached_moves, max_runtime_steps) ==
    [max_states |-> max_states, max_edges |-> max_edges,
     max_cache_entries |-> max_cache_entries, max_cached_moves |-> max_cached_moves,
     max_runtime_steps |-> max_runtime_steps]

ResourceTracker_new(limits) ==
    [made |-> TRUE, limits |-> limits, counts |-> ResourceCounts_default, failed |-> NoError]

\* Mutation: a counter that reaches its limit is already an error.
bump_at_limit(tk, stage, metric, delta, limit) ==
    IF tk.failed # NoError THEN tk
    ELSE LET observed == u64_saturating_add(tk.counts[metric], delta)
             counts   == [tk.counts EXCEPT ![metric] = observed]
         IN  IF observed >= limit
             THEN [tk EXCEPT !.counts = counts,
                             !.failed = [kind |-> "LimitExceeded", stage |-> stage,
                                         metric |-> metric, limit |-> limit,
                                         observed |-> observed, counts |-> counts]]
             ELSE [tk EXCEPT !.counts = counts]

\* ResourceTracker::bump; a tracker whose solve has already returned an
\* error is left as it is.
bump(tk, stage, metric, delta, limit) ==
    IF tk.failed # NoError THEN tk
    ELSE LET observed == u64_saturating_add(tk.counts[metric], delta)
             counts   == [tk.counts EXCEPT ![metric] = observed]
         IN  IF observed > limit
             THEN [tk EXCEPT !.counts = counts,
                             !.failed = [kind |-> "LimitExceeded", stage |-> stage,
                                         metric |-> metric, limit |-> limit,
                                         observed |-> observed, counts |-> counts]]
             ELSE [tk EXCEPT !.counts = counts]

bump_states(tk, stage, delta) == bump(tk, stage, "states", delta, tk.limits.max_states)

bump_edges(tk, stage, delta) == bump(tk, stage, "edges", delta, tk.limits.max_edges)

bump_cache_entries(tk, stage, delta) ==
    bump(tk, stage, "cache_entries", delta, tk.limits.max_cache_entries)

bump_cached_moves(tk, stage, delta) ==
    bump(tk, stage, "cached_moves", delta, tk.limits.max_cached_moves)

bump_steps(tk, stage, delta) ==
    bump(tk, stage, "runtime_steps", delta, tk.limits.max_runtime_steps)

dec_cache_entries(tk, delta) ==
    [tk EXCEPT !.counts.cache_entries = u64_saturating_sub(@, delta)]

dec_cached_moves(tk, delta) ==
    [tk EXCEPT !.counts.cached_moves = u64_saturating_sub(@, delta)]

(***************************************************************************)
(* src/search/movegen.rs with the tracker: the Vec and the bumped tracker. *)
(***************************************************************************)
\* The Vec `out` of legal_black_moves.
black_moves_vec(s) ==
    IF scn.kind = "chess" THEN legal_black_moves_vec(s) ELSE ascending(legal_black_moves(s))

\* The tail of both generators: the edges are counted, the Vec is returned.
counted_moves(tk, stage, out) ==
    [tk |-> bump_edges(tk, stage, Len(out)), moves |-> out]

tracked_legal_black_moves(tk, s) == counted_moves(tk, "movegen_black", black_moves_vec(s))

tracked_legal_white_moves(tk, s) == counted_moves(tk, "movegen_white", replies_vec(s))

\* is_stalemate_with_laws: the answer and the bumped tracker.
stalemate_answer(mv) == [tk |-> mv.tk, is |-> mv.moves = <<>>]

tracked_is_stalemate_with_laws(tk, s) ==
    IF rules_is_attacked(s) THEN [tk |-> tk, is |-> FALSE]
    ELSE stalemate_answer(tracked_legal_black_moves(tk, s))

\* The end of try_add_reachable_b for a state that is new to `trap`: the
\* state is counted, then the queue length is tested.
queue_push_over(acc, max_queue, b, tk) ==
    IF tk.failed # NoError THEN [acc EXCEPT !.tk = tk, !.err = TRUE]
    ELSE IF Len(acc.q) > max_queue
    THEN [acc EXCEPT !.err = TRUE,
                     !.tk = [tk EXCEPT !.failed =
                                [kind |-> "LimitExceeded", stage |-> "candidates_reachable",
                                 metric |-> "queue", limit |-> max_queue,
                                 observed |-> Len(acc.q) + 1, counts |-> tk.counts]]]
    ELSE [acc EXCEPT !.q = Append(@, b), !.tk = tk]

queue_push(acc, max_queue, b, tk) ==
    IF tk.failed # NoError THEN [acc EXCEPT !.tk = tk, !.err = TRUE]
    ELSE IF Len(acc.q) >= max_queue
    THEN [acc EXCEPT !.err = TRUE,
                     !.tk = [tk EXCEPT !.failed =
                                [kind |-> "LimitExceeded", stage |-> "candidates_reachable",
                                 metric |-> "queue", limit |-> max_queue,
                                 observed |-> Len(acc.q) + 1, counts |-> tk.counts]]]
    ELSE [acc EXCEPT !.q = Append(@, b), !.tk = tk]

\* `if trap.insert(b.clone()) { ... }`
insert_reachable(acc, max_queue, b) ==
    IF b \in acc.trap THEN acc
    ELSE queue_push([acc EXCEPT !.trap = @ \cup {b}], max_queue, b,
                    bump_states(acc.tk, "candidates_reachable", 1))

\* The stalemate test of try_add_reachable_b and what follows it.
insert_unless_stalemate(acc, max_queue, b, st) ==
    IF st.tk.failed # NoError THEN [acc EXCEPT !.tk = st.tk, !.err = TRUE]
    ELSE IF st.is THEN [acc EXCEPT !.tk = st.tk]
    ELSE insert_reachable([acc EXCEPT !.tk = st.tk], max_queue, b)

\* try_add_reachable_b on acc = (trap, q, tk); err is set when a `?` has
\* returned the error held in tk.failed.
try_add_reachable_b(acc, max_queue, b) ==
    IF acc.err THEN acc
    ELSE IF ~allow_state(b) THEN acc
    ELSE IF ~inside(b) THEN acc
    ELSE IF scn.remove_stalemates
    THEN insert_unless_stalemate(acc, max_queue, b, tracked_is_stalemate_with_laws(acc.tk, b))
    ELSE insert_reachable(acc, max_queue, b)

\* `for b in moves { try_add_reachable_b(..., b)?; }`
RECURSIVE try_add_each(_, _, _)
try_add_each(acc, max_queue, bs) ==
    IF bs = <<>> THEN acc
    ELSE try_add_each(try_add_reachable_b(acc, max_queue, Head(bs)), max_queue, Tail(bs))

\* `let replies = legal_white_moves(...)?; for b2 in replies { ... }`
add_counted_replies(acc, max_queue, replies) ==
    IF acc.tk.failed # NoError THEN [acc EXCEPT !.err = TRUE]
    ELSE try_add_each(acc, max_queue, replies)

add_replies(acc, max_queue, replies) ==
    IF acc.err THEN acc
    ELSE add_counted_replies([acc EXCEPT !.tk = bump_edges(@, "movegen_white", Len(replies))],
                             max_queue, replies)

\* `for w in after_black { ... }`
RECURSIVE add_replies_of_each(_, _, _)
add_replies_of_each(acc, max_queue, ws) ==
    IF ws = <<>> THEN acc
    ELSE add_replies_of_each(add_replies(acc, max_queue, legal_white_moves_vec(Head(ws))),
                             max_queue, Tail(ws))

\* The body of `while let Some(b) = q.pop_front()` after bump_steps.
scan_counted_black(acc, max_queue, after_black) ==
    IF acc.tk.failed # NoError THEN [acc EXCEPT !.err = TRUE]
    ELSE add_replies_of_each(acc, max_queue, after_black)

scan_reachable(acc, max_queue, after_black) ==
    IF acc.tk.failed # NoError THEN [acc EXCEPT !.err = TRUE]
    ELSE scan_counted_black([acc EXCEPT !.tk = bump_edges(@, "movegen_black", Len(after_black))],
                            max_queue, after_black)

\* The end of one pass of a candidate loop: the state is inserted and, when
\* it is new, counted.
admit_candidate(tk, cur, s, stage) ==
    IF s \in cur THEN [tk |-> tk, trap |-> cur]
    ELSE [tk |-> bump_states(tk, stage, 1), trap |-> cur \cup {s}]

\* The tracker after the tests of one pass: the stalemate test, made once the
\* other tests are passed, counts the edges it generates.
tested_candidate(tk, s) ==
    IF rules_is_legal_position(s) /\ allow_state(s) /\ inside(s) /\ scn.remove_stalemates
    THEN tracked_is_stalemate_with_laws(tk, s).tk
    ELSE tk

insert_if_kept(tk, cur, s, stage) ==
    IF tk.failed # NoError \/ ~candidate_kept(s) THEN [tk |-> tk, trap |-> cur]
    ELSE admit_candidate(tk, cur, s, stage)

\* One pass of the loop of the InLinfBound, InBox and FromStates arms.
candidate_step(tk, cur, s, stage) == insert_if_kept(tested_candidate(tk, s), cur, s, stage)

\* The states an enumerator yields, in the order it yields them.
RECURSIVE yielded(_)
yielded(set) ==
    IF set = {} THEN <<>>
    ELSE LET first == CHOOSE x \in set : TRUE
         IN  <<first>> \o yielded(set \ {first})

RECURSIVE candidate_loop(_, _, _)
candidate_loop(acc, states, stage) ==
    IF states = <<>> \/ acc.tk.failed # NoError THEN acc
    ELSE candidate_loop(candidate_step(acc.tk, acc.trap, Head(states), stage),
                        Tail(states), stage)

\* ResourceLimits::default, every limit at the greatest value of a counter.
ResourceLimits_default == ResourceLimits(U64_MAX, U64_MAX, U64_MAX, U64_MAX, U64_MAX)

\* The scenario with its limits and cache_mode fields set.
WithLimits(sc, limits, cache_mode) ==
    [limits |-> limits, cache_mode |-> cache_mode] @@ sc

\* The positions and states the scenarios below start from or list.
one_piece(c) == <<from_coord(c)>>

two_pieces(c1, c2) == <<from_coord(c1), from_coord(c2)>>

BoxCoords == Range(box_coords(1))

CandidateScenarios ==
    LET rook  == from_counts(FALSE, 0, 1, 0, 0)
        rooks == from_counts(FALSE, 0, 2, 0, 0)
        queen == from_counts(FALSE, 1, 0, 0, 0)
        east  == [kind |-> "OnlyBlackDelta", delta |-> Coord_new(1, 0)]
        keep  == [kind |-> "KeepKingInAbsBox", bound |-> 1]
        box   == [kind |-> "AbsBox", bound |-> 1]
    IN  {WithStart(ChessScenario("linf_rook", rook, 2, FALSE, FALSE,
                                 InLinfBound(1, TRUE), AllDomain, east),
                   StartState(to_move, State_new(anchor, one_piece(c))), rs) :
            to_move \in Side, anchor \in {ORIGIN, Coord_new(1, 0)},
            c \in {Coord_new(1, 1), Coord_new(-1, 0), Coord_new(2, 0), ORIGIN},
            rs \in BOOLEAN}
        \cup
        {WithStart(ChessScenario("box_queen", queen, 2, TRUE, track,
                                 InBox(1, TRUE), box, keep),
                   StartState(to_move, State_new(ORIGIN, one_piece(c))), TRUE) :
            to_move \in Side, track \in BOOLEAN,
            c \in {Coord_new(1, 0), Coord_new(2, 0)}}
        \cup
        {WithStart(ChessScenario("domain_return_ok", rook, 1, FALSE, FALSE,
                                 FromStates(<<State_new(ORIGIN, one_piece(Coord_new(2, 1)))>>),
                                 [kind |-> "RookAt", at |-> Coord_new(2, 1)], east),
                   StartState("Black", State_new(ORIGIN, one_piece(Coord_new(2, 1)))), FALSE),
         WithStart(ChessScenario("domain_escape", rook, 1, FALSE, FALSE,
                                 FromStates(<<State_new(ORIGIN, one_piece(Coord_new(1, 0)))>>),
                                 [kind |-> "RookAt", at |-> Coord_new(1, 0)], east),
                   StartState("Black", State_new(ORIGIN, one_piece(Coord_new(1, 0)))), FALSE)}
        \cup
        {WithStart(ChessScenario("listed_rooks", rooks, 1, pass, FALSE,
                                 FromStates(<<State_new(ORIGIN, two_pieces(c1, c2)),
                                              State_new(ORIGIN, two_pieces(c2, c1)),
                                              State_new(ORIGIN, <<from_coord(c1), NONE>>),
                                              State_new(anchor, two_pieces(c2, c3))>>),
                                 [kind |-> "RookAt", at |-> Coord_new(-1, 0)], east),
                   StartState("Black", State_new(ORIGIN, two_pieces(Coord_new(-1, 0),
                                                                    Coord_new(2, 1)))), rs) :
            pass \in BOOLEAN, rs \in BOOLEAN, anchor \in {ORIGIN, Coord_new(0, 1)},
            c1 \in {Coord_new(1, 1), ORIGIN}, c2 \in {Coord_new(-1, 0), Coord_new(1, 1)},
            c3 \in {Coord_new(1, -1), Coord_new(-1, 1)}}
        \cup
        {WithStart(ChessScenario("reach_queen", queen, 2, pass, TRUE,
                                 ReachableFromStart(max_queue), box, keep),
                   StartState(to_move, State_new(anchor, one_piece(c))), TRUE) :
            pass \in BOOLEAN, max_queue \in {0, 1, 3, 100}, to_move \in Side,
            anchor \in {ORIGIN, Coord_new(1, 1)},
            c \in {Coord_new(-1, -1), Coord_new(-2, -1), Coord_new(1, 0), Coord_new(0, 1)}}

\* scn.validate()?, then ResourceTracker::new(scn.limits).
CandValidate ==
    /\ pc = "cand_validate"
    /\ pc' = IF validate THEN "cand_arm" ELSE "validate_failed"
    /\ tracker' = IF validate THEN ResourceTracker_new(scn.limits) ELSE tracker
    /\ UNCHANGED <<scn, rounds, trap, queue, strategy, cache, scan, tempoVars, mateVars, bundle>>

\* The InLinfBound arm.
CandInLinfBound ==
    /\ pc = "cand_arm"
    /\ scn.candidates.mode = "InLinfBound"
    /\ \E out \in {candidate_loop([tk |-> tracker, trap |-> {}],
                                   yielded({State_new(ORIGIN, pos) :
                                       pos \in enumerate_positions_in_bound(
                                                   scn.rules.layout, scn.candidates.bound,
                                                   scn.candidates.allow_captures)}),
                                   "candidates_in_bound")} :
          /\ trap' = out.trap
          /\ tracker' = out.tk
          /\ pc' = IF out.tk.failed # NoError THEN "cand_limit" ELSE "trap_prune"
    /\ UNCHANGED <<scn, rounds, queue, strategy, cache, scan, tempoVars, mateVars, bundle>>

\* The InBox arm.
CandInBox ==
    /\ pc = "cand_arm"
    /\ scn.candidates.mode = "InBox"
    /\ IF ~scn.track_abs_king
       THEN /\ pc' = "cand_invalid"
            /\ UNCHANGED <<trap, tracker>>
       ELSE \E out \in {candidate_loop([tk |-> tracker, trap |-> {}],
                                       yielded(abs_box_states), "candidates_in_abs_box")} :
               /\ trap' = out.trap
               /\ tracker' = out.tk
               /\ pc' = IF out.tk.failed # NoError THEN "cand_limit" ELSE "trap_prune"
    /\ UNCHANGED <<scn, rounds, queue, strategy, cache, scan, tempoVars, mateVars, bundle>>

\* The FromStates arm: the listed states are taken into `queue`.
CandFromStates ==
    /\ pc = "cand_arm"
    /\ scn.candidates.mode = "FromStates"
    /\ queue' = scn.candidates.states
    /\ pc' = IF scn.candidates.states = <<>> THEN "trap_prune" ELSE "cand_from_states"
    /\ UNCHANGED <<scn, rounds, trap, strategy, tracker, cache, scan, tempoVars, mateVars, bundle>>

\* One iteration of `for s0 in states.iter()`.
CandFromStatesNext ==
    /\ pc = "cand_from_states"
    /\ IF ~scn.track_abs_king /\ Head(queue).abs_king # ORIGIN
       THEN /\ pc' = "cand_invalid"
            /\ UNCHANGED <<trap, queue, tracker>>
       ELSE \E out \in {candidate_step(tracker, trap,
                                       State_new(Head(queue).abs_king,
                                                 canonicalize(Head(queue).pos,
                                                              scn.rules.layout)),
                                       "candidates_from_states")} :
               /\ trap' = out.trap
               /\ tracker' = out.tk
               /\ queue' = Tail(queue)
               /\ pc' = IF out.tk.failed # NoError THEN "cand_limit"
                        ELSE IF Tail(queue) = <<>> THEN "trap_prune" ELSE "cand_from_states"
    /\ UNCHANGED <<scn, rounds, strategy, cache, scan, tempoVars, mateVars, bundle>>

\* The ReachableFromStart arm up to its `while` loop.
CandReachableSeed ==
    /\ pc = "cand_arm"
    /\ scn.candidates.mode = "ReachableFromStart"
    /\ IF scn.candidates.max_queue = 0
       THEN /\ pc' = "cand_invalid"
            /\ UNCHANGED <<trap, queue, tracker>>
       ELSE \E acc \in {IF scn.start.to_move = "Black"
                        THEN try_add_reachable_b(
                                 [trap |-> {}, q |-> <<>>, err |-> FALSE, tk |-> tracker],
                                 scn.candidates.max_queue, scn.start.state)
                        ELSE add_replies(
                                 [trap |-> {}, q |-> <<>>, err |-> FALSE, tk |-> tracker],
                                 scn.candidates.max_queue,
                                 legal_white_moves_vec(scn.start.state))} :
               /\ trap' = acc.trap
               /\ queue' = acc.q
               /\ tracker' = acc.tk
               /\ pc' = IF acc.err THEN "cand_limit"
                        ELSE IF acc.q = <<>> THEN "trap_prune" ELSE "cand_scan"
    /\ UNCHANGED <<scn, rounds, strategy, cache, scan, tempoVars, mateVars, bundle>>

\* One iteration of `while let Some(b) = q.pop_front()`.
CandReachableScan ==
    /\ pc = "cand_scan"
    /\ \E acc \in {scan_reachable([trap |-> trap, q |-> Tail(queue), err |-> FALSE,
                                    tk |-> bump_steps(tracker, "candidates_reachable_scan", 1)],
                                   scn.candidates.max_queue,
                                   legal_black_moves_vec(Head(queue)))} :
          /\ trap' = acc.trap
          /\ queue' = acc.q
          /\ tracker' = acc.tk
          /\ pc' = IF acc.err THEN "cand_limit"
                   ELSE IF acc.q = <<>> THEN "trap_prune" ELSE "cand_scan"
    /\ UNCHANGED <<scn, rounds, strategy, cache, scan, tempoVars, mateVars, bundle>>

CandInit ==
    /\ scn \in {WithLimits(sc, ResourceLimits_default, "BothBounded") : sc \in CandidateScenarios}
    /\ pc = "cand_validate"
    /\ trap = {}
    /\ queue = <<>>
    /\ tracker = NoTracker
    /\ cache = NoCache
    /\ scan = NoScan
    /\ strategy = NoStrategy
    /\ rounds = 0
    /\ btm_trap = {}
    /\ g = NoGraph
    /\ tempo = NoResult
    /\ play = NoPlay
    /\ compute_dtm = FALSE
    /\ m = NoGraph
    /\ mate = NoResult
    /\ bundle = NoBundle

\* The pruning loop that follows the candidates is taken in whole rounds,
\* which leave the counters as the candidate generation left them.
CandNext ==
    \/ CandValidate
    \/ CandInLinfBound
    \/ CandInBox
    \/ CandFromStates
    \/ CandFromStatesNext
    \/ CandReachableSeed
    \/ CandReachableScan
    \/ TrapPruneRound
    \/ TrapReturn

SpecCandidates == CandInit /\ [][CandNext]_vars

(***************************************************************************)
(* src/search/strategy.rs: extract_white_stay_strategy on the returned     *)
(* trap, and a play in which White follows the extracted map.              *)
(***************************************************************************)
\* Mutation: every reply is kept, in the trap or not.
stay_replies_unfiltered(trap_set, w) == replies_vec(w)

\* `stay`: the replies that are members of btm_trap.
stay_replies(trap_set, w) ==
    SelectSeq(replies_vec(w), LAMBDA r : r \in trap_set)

\* PreferencesLike::rank_white_moves, a user-supplied ranking of `moves` by
\* 0-based index: NoPreferences returns 0..len-1; the other rankers return
\* the reverse, nothing, and out-of-range indices followed by index 1.
Rankers == {"NoPreferences", "Reverse", "Empty", "OutOfRange"}

rank_white_moves(ranker, moves) ==
    CASE ranker = "NoPreferences" -> [k \in 1..Len(moves) |-> k - 1]
      [] ranker = "Reverse"       -> [k \in 1..Len(moves) |-> Len(moves) - k]
      [] ranker = "Empty"         -> <<>>
      [] ranker = "OutOfRange"    -> <<Len(moves), Len(moves) + 1, 1>>

\* ranking.into_iter().find_map(|idx| stay.get(idx).cloned())
\*        .unwrap_or_else(|| stay.swap_remove(0))
stay_choice(ranker, stay) ==
    LET ranking == rank_white_moves(ranker, stay)
        valid   == SelectSeq(ranking, LAMBDA idx : idx < Len(stay))
    IN  IF valid # <<>> THEN stay[Head(valid) + 1] ELSE stay[1]

\* extract_white_stay_strategy: the returned map.  A key's value depends on
\* the key only, so the iteration order of btm_trap does not show.
extract_white_stay_strategy(trap_set, ranker) ==
    LET keys == {w \in UNION {legal_black_moves(b) : b \in trap_set} :
                    stay_replies(trap_set, w) # <<>>}
    IN  [w \in keys |-> stay_choice(ranker, stay_replies(trap_set, w))]

\* The strategy is extracted from the returned trap.
StayExtract ==
    /\ pc = "trap_done"
    /\ \E ranker \in Rankers :
          strategy' = [built |-> TRUE, map |-> extract_white_stay_strategy(trap, ranker)]
    /\ pc' = "stay_extracted"
    /\ UNCHANGED <<scn, rounds, trap, queue, tracker, cache, scan, tempoVars, mateVars, bundle>>

\* A play starts at a state of the trap, Black to move.
StayStart ==
    /\ pc = "stay_extracted"
    /\ \E b \in trap : play' = [on |-> TRUE, turn |-> "Black", pos |-> b]
    /\ pc' = "stay_play"
    /\ UNCHANGED <<scn, rounds, trapVars, btm_trap, g, tempo, mateVars, bundle>>

\* Black picks any legal move.
StayBlack ==
    /\ pc = "stay_play"
    /\ play.turn = "Black"
    /\ \E w \in legal_black_moves(play.pos) :
          play' = [on |-> TRUE, turn |-> "White", pos |-> w]
    /\ UNCHANGED <<scn, pc, rounds, trapVars, btm_trap, g, tempo, mateVars, bundle>>

\* White answers with the saved strategy; a missing entry ends the play
\* (`expect("expected white to have a saved response")`).
StayWhite ==
    /\ pc = "stay_play"
    /\ play.turn = "White"
    /\ IF play.pos \in DOMAIN strategy.map
       THEN /\ play' = [on |-> TRUE, turn |-> "Black", pos |-> strategy.map[play.pos]]
            /\ pc' = pc
       ELSE /\ play' = play
            /\ pc' = "stay_no_response"
    /\ UNCHANGED <<scn, rounds, trapVars, btm_trap, g, tempo, mateVars, bundle>>

StayNext == TrapNext \/ StayExtract \/ StayStart \/ StayBlack \/ StayWhite

SpecStay == TrapInit /\ [][StayNext]_vars

(***************************************************************************)
(* src/search/trap.rs: MoveCache.  The two maps are functions from State   *)
(* to the cached Vec.                                                      *)
(***************************************************************************)
EmptyMap == [k \in {} |-> <<>>]

MoveCache_default == [made |-> TRUE, black |-> EmptyMap, white |-> EmptyMap]

map_remove(map, key) == [k \in DOMAIN map \ {key} |-> map[k]]

map_insert(map, key, value) ==
    [k \in DOMAIN map \cup {key} |-> IF k = key THEN value ELSE map[k]]

\* The `while` loop of evict_to_fit with evict_one: the caches and trackers
\* it can end with.  evict_one removes the entry `iter().next()` gives, any
\* entry of the black map, or of the white map once the black map is empty.
RECURSIVE evict_loop(_, _, _, _)
evict_loop(c, tk, need_entries, need_moves) ==
    IF ~(\/ tk.counts.cache_entries + need_entries > tk.limits.max_cache_entries
         \/ tk.counts.cached_moves + need_moves > tk.limits.max_cached_moves)
    THEN {[cache |-> c, tk |-> tk]}
    ELSE IF DOMAIN c.black # {}
    THEN UNION {evict_loop([c EXCEPT !.black = map_remove(c.black, k)],
                           dec_cached_moves(dec_cache_entries(tk, 1), Len(c.black[k])),
                           need_entries, need_moves) : k \in DOMAIN c.black}
    ELSE IF DOMAIN c.white # {}
    THEN UNION {evict_loop([c EXCEPT !.white = map_remove(c.white, k)],
                           dec_cached_moves(dec_cache_entries(tk, 1), Len(c.white[k])),
                           need_entries, need_moves) : k \in DOMAIN c.white}
    ELSE {[cache |-> c, tk |-> tk]}

cache_limit_exceeded(tk, metric, limit, observed) ==
    [tk EXCEPT !.failed = [kind |-> "LimitExceeded", stage |-> "cache", metric |-> metric,
                           limit |-> limit, observed |-> observed, counts |-> tk.counts]]

\* Mutation: nothing is evicted.
evict_to_fit_keeps_all(c, tk, add_entries, add_moves) ==
    {[cache |-> c, tk |-> tk]}

\* MoveCache::evict_to_fit: the (cache, tracker) pairs it can return with.
evict_to_fit(c, tk, add_entries, add_moves) ==
    LET max_entries == tk.limits.max_cache_entries
        max_moves   == tk.limits.max_cached_moves
    IN  IF add_entries > max_entries
        THEN {[cache |-> c,
               tk |-> cache_limit_exceeded(tk, "cache_entries", max_entries, add_entries)]}
        ELSE IF add_moves > max_moves
        THEN {[cache |-> c,
               tk |-> cache_limit_exceeded(tk, "cached_moves", max_moves, add_moves)]}
        ELSE {IF e.tk.counts.cache_entries + add_entries > max_entries
              THEN [e EXCEPT !.tk = cache_limit_exceeded(e.tk, "cache_entries", max_entries,
                                        e.tk.counts.cache_entries + add_entries)]
              ELSE IF e.tk.counts.cached_moves + add_moves > max_moves
              THEN [e EXCEPT !.tk = cache_limit_exceeded(e.tk, "cached_moves", max_moves,
                                        e.tk.counts.cached_moves + add_moves)]
              ELSE e : e \in evict_loop(c, tk, add_entries, add_moves)}

\* Mutation: the entry is inserted into the white map whichever side asked.
cache_store_into_white(c, tk, side, s, arc) ==
    {IF e.tk.failed # NoError THEN [cache |-> e.cache, tk |-> e.tk, moves |-> <<>>]
     ELSE LET stage == IF side = "black" THEN "cache_black" ELSE "cache_white"
              tk2   == bump_cached_moves(bump_cache_entries(e.tk, stage, 1), stage, Len(arc))
          IN  IF tk2.failed # NoError THEN [cache |-> e.cache, tk |-> tk2, moves |-> <<>>]
              ELSE [cache |-> [e.cache EXCEPT !.white = map_insert(e.cache.white, s, arc)],
                    tk    |-> tk2,
                    moves |-> arc] :
        e \in evict_to_fit(c, tk, 1, Len(arc))}

\* The part of a lookup after the moves are generated: evict, count, insert.
cache_store(c, tk, side, s, arc) ==
    {IF e.tk.failed # NoError THEN [cache |-> e.cache, tk |-> e.tk, moves |-> <<>>]
     ELSE LET stage == IF side = "black" THEN "cache_black" ELSE "cache_white"
              tk2   == bump_cached_moves(bump_cache_entries(e.tk, stage, 1), stage, Len(arc))
          IN  IF tk2.failed # NoError THEN [cache |-> e.cache, tk |-> tk2, moves |-> <<>>]
              ELSE [cache |-> [e.cache EXCEPT ![side] = map_insert(e.cache[side], s, arc)],
                    tk    |-> tk2,
                    moves |-> arc] :
        e \in evict_to_fit(c, tk, 1, Len(arc))}

\* Mutation: a hit returns no moves.
cache_lookup_hit_forgets(c, tk, side, s, do_cache, mv) ==
    IF do_cache /\ s \in DOMAIN c[side]
    THEN {[cache |-> c, tk |-> tk, moves |-> <<>>]}
    ELSE IF mv.tk.failed # NoError THEN {[cache |-> c, tk |-> mv.tk, moves |-> <<>>]}
    ELSE IF ~do_cache THEN {[cache |-> c, tk |-> mv.tk, moves |-> mv.moves]}
    ELSE cache_store(c, mv.tk, side, s, mv.moves)

\* The body shared by black_moves and white_moves: a hit returns the cached
\* Vec; a miss generates the moves `mv` and, when this side is cached, stores
\* them.  The (cache, tracker, moves) it can return with.
cache_lookup(c, tk, side, s, do_cache, mv) ==
    IF do_cache /\ s \in DOMAIN c[side]
    THEN {[cache |-> c, tk |-> tk, moves |-> c[side][s]]}
    ELSE IF mv.tk.failed # NoError THEN {[cache |-> c, tk |-> mv.tk, moves |-> <<>>]}
    ELSE IF ~do_cache THEN {[cache |-> c, tk |-> mv.tk, moves |-> mv.moves]}
    ELSE cache_store(c, mv.tk, side, s, mv.moves)

\* MoveCache::black_moves.
cache_black_moves(c, tk, s) ==
    cache_lookup(c, tk, "black", s, scn.cache_mode \in {"BlackOnly", "BothBounded"},
                 tracked_legal_black_moves(tk, s))

\* MoveCache::white_moves.
cache_white_moves(c, tk, s) ==
    cache_lookup(c, tk, "white", s, scn.cache_mode = "BothBounded",
                 tracked_legal_white_moves(tk, s))

(***************************************************************************)
(* Any sequence of lookups in a MoveCache.                                 *)
(***************************************************************************)
CacheModes == {"None", "BlackOnly", "BothBounded"}

NumCacheScenarios == 3

MaxLookups == 5

\* The caps (max_cache_entries, max_cached_moves) of the scenarios below.
CacheCaps == {<<0, U64_MAX>>, <<1, U64_MAX>>, <<3, U64_MAX>>, <<U64_MAX, 1>>, <<3, 3>>}

CacheScenarios ==
    {WithLimits(ScenarioOf(id),
                ResourceLimits(U64_MAX, U64_MAX, caps[1], caps[2], U64_MAX),
                cache_mode) :
        id \in 1..NumCacheScenarios, caps \in CacheCaps, cache_mode \in CacheModes}

CacheBlackMoves ==
    /\ pc = "cache_ready"
    /\ rounds < MaxLookups
    /\ \E s \in State : \E o \in cache_black_moves(cache, tracker, s) :
          /\ cache' = o.cache
          /\ tracker' = o.tk
          /\ pc' = IF o.tk.failed # NoError THEN "cache_failed" ELSE pc
    /\ rounds' = rounds + 1
    /\ UNCHANGED <<scn, trap, queue, strategy, scan, tempoVars, mateVars, bundle>>

CacheWhiteMoves ==
    /\ pc = "cache_ready"
    /\ rounds < MaxLookups
    /\ \E s \in State : \E o \in cache_white_moves(cache, tracker, s) :
          /\ cache' = o.cache
          /\ tracker' = o.tk
          /\ pc' = IF o.tk.failed # NoError THEN "cache_failed" ELSE pc
    /\ rounds' = rounds + 1
    /\ UNCHANGED <<scn, trap, queue, strategy, scan, tempoVars, mateVars, bundle>>

CacheInit ==
    /\ scn \in CacheScenarios
    /\ pc = "cache_ready"
    /\ trap = {}
    /\ queue = <<>>
    /\ strategy = NoStrategy
    /\ tracker = ResourceTracker_new(scn.limits)
    /\ cache = MoveCache_default
    /\ scan = NoScan
    /\ rounds = 0
    /\ btm_trap = {}
    /\ g = NoGraph
    /\ tempo = NoResult
    /\ play = NoPlay
    /\ compute_dtm = FALSE
    /\ m = NoGraph
    /\ mate = NoResult
    /\ bundle = NoBundle

CacheNext == CacheBlackMoves \/ CacheWhiteMoves

SpecCache == CacheInit /\ [][CacheNext]_vars

(***************************************************************************)
(* src/search/trap.rs: maximal_inescapable_trap with its ResourceTracker   *)
(* and MoveCache, one scanned state at a time.  `queue` holds the          *)
(* candidates still to be enumerated, `scan` the states the current round  *)
(* has not yet visited and its `to_remove`; the hash set is iterated in    *)
(* any order.                                                              *)
(***************************************************************************)
\* `white_moves.iter().any(|q| trap.contains(q))`
has_reply_in_trap(cur, replies) ==
    \E i \in DOMAIN replies : replies[i] \in cur

\* The `for after_black in black_moves.iter()` loop: the (cache, tracker,
\* fails) it can end with.
RECURSIVE scan_black_moves(_, _, _, _)
RECURSIVE scan_after_white(_, _, _)
scan_black_moves(c, tk, cur, after_blacks) ==
    IF after_blacks = <<>> THEN {[cache |-> c, tk |-> tk, fails |-> FALSE]}
    ELSE UNION {scan_after_white(o, cur, Tail(after_blacks)) :
                    o \in cache_white_moves(c, tk, Head(after_blacks))}

scan_after_white(o, cur, rest) ==
    IF o.tk.failed # NoError THEN {[cache |-> o.cache, tk |-> o.tk, fails |-> FALSE]}
    ELSE IF ~has_reply_in_trap(cur, o.moves)
    THEN {[cache |-> o.cache, tk |-> o.tk, fails |-> TRUE]}
    ELSE scan_black_moves(o.cache, o.tk, cur, rest)

scan_after_black(o, cur) ==
    IF o.tk.failed # NoError THEN {[cache |-> o.cache, tk |-> o.tk, fails |-> FALSE]}
    ELSE scan_black_moves(o.cache, o.tk, cur, o.moves)

scan_counted(c, tk, cur, p) ==
    IF tk.failed # NoError THEN {[cache |-> c, tk |-> tk, fails |-> FALSE]}
    ELSE UNION {scan_after_black(o, cur) : o \in cache_black_moves(c, tk, p)}

\* One pass of the `for p in trap.iter()` loop.
scan_state(c, tk, cur, p) == scan_counted(c, bump_steps(tk, "trap_prune_scan", 1), cur, p)

\* Mutation: the loop goes on although nothing is to be removed.
round_never_stops(rm) == FALSE

\* `if to_remove.is_empty() { break; }`
round_stops(rm) == rm = {}

NumTrackedScenarios == 124

\* (max_states, max_edges, max_cache_entries, max_cached_moves,
\* max_runtime_steps) of the scenarios below.
TrackedLimits ==
    {<<U64_MAX, U64_MAX, U64_MAX, U64_MAX, U64_MAX>>,
     <<2, U64_MAX, U64_MAX, U64_MAX, U64_MAX>>,
     <<U64_MAX, 6, U64_MAX, U64_MAX, U64_MAX>>,
     <<U64_MAX, U64_MAX, U64_MAX, U64_MAX, 7>>,
     <<U64_MAX, U64_MAX, 2, 4, U64_MAX>>}

TrackedScenarios ==
    {WithLimits(ScenarioOf(id), ResourceLimits(l[1], l[2], l[3], l[4], l[5]), cache_mode) :
        id \in 1..NumTrackedScenarios, l \in TrackedLimits, cache_mode \in CacheModes}

TkCandidate ==
    /\ pc = "tk_candidates"
    /\ queue # <<>>
    /\ \E o \in {candidate_step(tracker, trap, Head(queue), "candidates_in_bound")} :
          /\ tracker' = o.tk
          /\ trap' = o.trap
          /\ pc' = IF o.tk.failed # NoError THEN "tk_limit" ELSE pc
    /\ queue' = Tail(queue)
    /\ UNCHANGED <<scn, strategy, cache, scan, rounds, tempoVars, mateVars, bundle>>

TkCandidatesDone ==
    /\ pc = "tk_candidates"
    /\ queue = <<>>
    /\ cache' = MoveCache_default
    /\ pc' = "tk_iter"
    /\ UNCHANGED <<scn, trap, queue, strategy, tracker, scan, rounds, tempoVars, mateVars, bundle>>

TkIter ==
    /\ pc = "tk_iter"
    /\ tracker' = bump_steps(tracker, "trap_prune_iter", 1)
    /\ pc' = IF tracker'.failed # NoError THEN "tk_limit" ELSE "tk_scan"
    /\ scan' = [on |-> TRUE, left |-> trap, to_remove |-> {}]
    /\ rounds' = rounds + 1
    /\ UNCHANGED <<scn, trap, queue, strategy, cache, tempoVars, mateVars, bundle>>

TkScan ==
    /\ pc = "tk_scan"
    /\ \E p \in scan.left : \E o \in scan_state(cache, tracker, trap, p) :
          /\ cache' = o.cache
          /\ tracker' = o.tk
          /\ pc' = IF o.tk.failed # NoError THEN "tk_limit" ELSE pc
          /\ scan' = [scan EXCEPT !.left = @ \ {p},
                                  !.to_remove = IF o.fails THEN @ \cup {p} ELSE @]
    /\ UNCHANGED <<scn, trap, queue, strategy, rounds, tempoVars, mateVars, bundle>>

TkRoundEnd ==
    /\ pc = "tk_scan"
    /\ scan.left = {}
    /\ pc' = IF round_stops(scan.to_remove) THEN "tk_done" ELSE "tk_iter"
    /\ trap' = trap \ scan.to_remove
    /\ scan' = NoScan
    /\ UNCHANGED <<scn, queue, strategy, tracker, cache, rounds, tempoVars, mateVars, bundle>>

TkInit ==
    /\ scn \in TrackedScenarios
    /\ pc = "tk_candidates"
    /\ trap = {}
    /\ queue = ascending(scn.enumerated)
    /\ strategy = NoStrategy
    /\ tracker = ResourceTracker_new(scn.limits)
    /\ cache = NoCache
    /\ scan = NoScan
    /\ rounds = 0
    /\ btm_trap = {}
    /\ g = NoGraph
    /\ tempo = NoResult
    /\ play = NoPlay
    /\ compute_dtm = FALSE
    /\ m = NoGraph
    /\ mate = NoResult
    /\ bundle = NoBundle

TkNext == TkCandidate \/ TkCandidatesDone \/ TkIter \/ TkScan \/ TkRoundEnd

SpecTracked == TkInit /\ [][TkNext]_vars

\* The pruning loop runs whenever it can.
SpecTrackedFair == SpecTracked /\ WF_vars(TkNext)

\* Runs of maximal_inescapable_trap and runs of the Buchi solver.
SpecOrders == (TkInit \/ TempoInit) /\ [][TkNext \/ TempoNext]_vars

(***************************************************************************)
(* src/search/universe.rs: the calls for_each_state_in_abs_box makes to    *)
(* its callback, in the order it makes them.                               *)
(***************************************************************************)
prefix_each(i, lists) == [j \in DOMAIN lists |-> <<i>> \o lists[j]]

\* Mutation: the search for the next index starts again at `start`.
RECURSIVE choose_k_calls_restarting(_, _, _, _)
choose_k_calls_restarting(n, free, start, k) ==
    IF k = 0 THEN << <<>> >>
    ELSE Concat([i \in 1..(n - start + 1) |->
                    IF (start + i - 1) \in free
                    THEN prefix_each(start + i - 1,
                                     choose_k_calls_restarting(n, free, start, k - 1))
                    ELSE <<>>])

\* choose_k: the index lists it hands to `f`, in the order of the calls.
RECURSIVE choose_k_calls(_, _, _, _)
choose_k_calls(n, free, start, k) ==
    IF k = 0 THEN << <<>> >>
    ELSE Concat([i \in 1..(n - start + 1) |->
                    IF (start + i - 1) \in free
                    THEN prefix_each(start + i - 1,
                                     choose_k_calls(n, free, start + i, k - 1))
                    ELSE <<>>])

\* `for k in min_k..=max_k { choose_k(..., 0, k, ...) }`
choices_of_run(n, free, min_k, max_k) ==
    Concat([j \in 1..(max_k - min_k + 1) |-> choose_k_calls(n, free, 1, min_k + j - 1)])

\* rec: the states it calls `f` with, in order.
RECURSIVE rec_calls(_, _, _, _, _, _, _)
RECURSIVE rec_each(_, _, _, _, _, _, _, _)
rec_calls(layout, abs_squares, abs_king, allow_captures, group_idx, used, cur_abs) ==
    IF group_idx > Len(layout.identical_runs)
    THEN << State_new(abs_king,
                      canonicalize([i \in DOMAIN cur_abs |->
                                       IF is_none(cur_abs[i]) THEN NONE
                                       ELSE from_coord(coord_sub(coord(cur_abs[i]), abs_king))],
                                   layout)) >>
    ELSE rec_each(layout, abs_squares, abs_king, allow_captures, group_idx, used, cur_abs,
                  choices_of_run(Len(abs_squares),
                                 {i \in DOMAIN abs_squares :
                                     /\ i \notin used
                                     /\ layout.kinds[layout.identical_runs[group_idx].start] = "King"
                                          => chebyshev_norm(coord_sub(coord(abs_squares[i]),
                                                                      abs_king)) > 1},
                                 IF allow_captures THEN 0
                                 ELSE layout.identical_runs[group_idx].end
                                      - layout.identical_runs[group_idx].start + 1,
                                 layout.identical_runs[group_idx].end
                                 - layout.identical_runs[group_idx].start + 1))

\* The callback of rec for each chosen index list in turn.
rec_each(layout, abs_squares, abs_king, allow_captures, group_idx, used, cur_abs, choices) ==
    IF choices = <<>> THEN <<>>
    ELSE rec_calls(layout, abs_squares, abs_king, allow_captures, group_idx + 1,
                   used \cup Range(Head(choices)),
                   fill_run(cur_abs, layout.identical_runs[group_idx], abs_squares,
                            Head(choices)))
         \o rec_each(layout, abs_squares, abs_king, allow_captures, group_idx, used, cur_abs,
                     Tail(choices))

abs_squares_of(coords) == [k \in DOMAIN coords |-> from_coord(coords[k])]

\* `for kx in -bound..=bound { for ky in -bound..=bound { rec(0, ...) } }`
calls_in_box(layout, coords, allow_captures) ==
    Concat([king_idx \in DOMAIN coords |->
               rec_calls(layout, abs_squares_of(coords), coords[king_idx], allow_captures, 1,
                         {king_idx}, [i \in 1..piece_count(layout) |-> NONE])])

for_each_state_in_abs_box(layout, bound, allow_captures) ==
    calls_in_box(layout, box_coords(bound), allow_captures)

\* The layouts and bounds the enumerator is run on.
UniverseInputs ==
    {<<from_counts(FALSE, 0, 0, 0, 0), 0>>, <<from_counts(FALSE, 0, 0, 0, 0), 1>>,
     <<from_counts(FALSE, 0, 0, 0, 0), 2>>, <<from_counts(FALSE, 0, 1, 0, 0), 0>>,
     <<from_counts(FALSE, 0, 1, 0, 0), 2>>, <<from_counts(TRUE, 0, 0, 0, 0), 1>>,
     <<from_counts(TRUE, 0, 0, 0, 0), 2>>, <<from_counts(FALSE, 0, 2, 0, 0), 1>>,
     <<from_counts(TRUE, 0, 1, 0, 0), 1>>, <<from_counts(FALSE, 0, 1, 0, 1), 1>>,
     <<from_counts(TRUE, 0, 2, 0, 0), 1>>}

UniverseScenarios ==
    {ChessScenario("abs_box", in[1], 1, TRUE, TRUE, InBox(in[2], allow_captures),
                   AllDomain, NoLaws) :
        in \in UniverseInputs, allow_captures \in BOOLEAN}

\* The enumerator is run; `queue` holds the calls still to be made.
UniverseEnumerate ==
    /\ pc = "universe_start"
    /\ queue' = for_each_state_in_abs_box(scn.rules.layout, scn.candidates.bound,
                                          scn.candidates.allow_captures)
    /\ pc' = "universe_yield"
    /\ UNCHANGED <<scn, rounds, trap, strategy, tracker, cache, scan, tempoVars, mateVars, bundle>>

\* One call of the callback, which collects the state.
UniverseYield ==
    /\ pc = "universe_yield"
    /\ queue # <<>>
    /\ trap' = trap \cup {Head(queue)}
    /\ queue' = Tail(queue)
    /\ rounds' = rounds + 1
    /\ UNCHANGED <<scn, pc, strategy, tracker, cache, scan, tempoVars, mateVars, bundle>>

UniverseInit ==
    /\ scn \in UniverseScenarios
    /\ pc = "universe_start"
    /\ trap = {}
    /\ queue = <<>>
    /\ strategy = NoStrategy
    /\ tracker = NoTracker
    /\ cache = NoCache
    /\ scan = NoScan
    /\ rounds = 0
    /\ btm_trap = {}
    /\ g = NoGraph
    /\ tempo = NoResult
    /\ play = NoPlay
    /\ compute_dtm = FALSE
    /\ m = NoGraph
    /\ mate = NoResult
    /\ bundle = NoBundle

UniverseNext == UniverseEnumerate \/ UniverseYield

SpecUniverse == UniverseInit /\ [][UniverseNext]_vars

(***************************************************************************)
(* src/solution/mod.rs: export_bundle and load_bundle.  data.bin is a      *)
(* sequence of bytes and manifest.json a tree of texts.  The words of      *)
(* data.bin keep their number of bytes (4 for u32 and i32, 8 for i64) and  *)
(* a byte is scaled down to ByteBits bits (8 in the source); a text is a   *)
(* sequence of characters.                                                 *)
(***************************************************************************)
ByteBits == 2

ByteRange == 2 ^ ByteBits

\* u32::MAX, the mark of a missing transition.
u32_MAX == ByteRange ^ 4 - 1

FORMAT_VERSION == 1

\* b"ICHSOL01", each byte reduced to ByteBits bits.
DATA_MAGIC == <<1, 3, 0, 3, 3, 0, 0, 1>>

Reverse(seq) == [k \in DOMAIN seq |-> seq[Len(seq) + 1 - k]]

\* v.to_le_bytes() of a word of n bytes: two's complement, low byte first.
to_le_bytes(v, n) ==
    [k \in 1..n |-> ((v % (ByteRange ^ n)) \div (ByteRange ^ (k - 1))) % ByteRange]

\* u32::from_le_bytes and the unsigned reading of any word.
RECURSIVE from_le_bytes(_)
from_le_bytes(buf) ==
    IF buf = <<>> THEN 0 ELSE Head(buf) + ByteRange * from_le_bytes(Tail(buf))

\* The signed reading of an unsigned word of n bytes.
as_signed(u, n) == IF u >= (ByteRange ^ n) \div 2 THEN u - ByteRange ^ n ELSE u

write_u32(w, v) == w \o to_le_bytes(v, 4)

write_i32(w, v) == w \o to_le_bytes(v, 4)

write_i64(w, v) == w \o to_le_bytes(v, 8)

\* The read_* functions at byte offset `off` of the file (`r` has read `off`
\* bytes so far); read_exact fails when fewer bytes are left, which the
\* callers test with can_read.
can_read(bytes, off, n) == off + n <= Len(bytes)

read_u32(bytes, off) == from_le_bytes(SubSeq(bytes, off + 1, off + 4))

read_i32(bytes, off) == as_signed(from_le_bytes(SubSeq(bytes, off + 1, off + 4)), 4)

\* Mutation: the eight bytes are read as an unsigned word.
read_i64_unsigned(bytes, off) == from_le_bytes(SubSeq(bytes, off + 1, off + 8))

read_i64(bytes, off) == as_signed(from_le_bytes(SubSeq(bytes, off + 1, off + 8)), 8)

\* `for &id in ids { write_u32(w, id) }`
write_u32s(w, ids) ==
    w \o [k \in 1..(4 * Len(ids)) |-> to_le_bytes(ids[((k - 1) \div 4) + 1], 4)[((k - 1) % 4) + 1]]

\* abs_king.x, abs_king.y and the raw word of every square of the position.
write_state(w, s) ==
    write_i32(write_i32(w, s.abs_king.x), s.abs_king.y)
    \o Concat([i \in DOMAIN s.pos |-> to_le_bytes(s.pos[i], 8)])

write_states(w, states) ==
    w \o Concat([i \in DOMAIN states |-> write_state(<<>>, states[i])])

\* A length followed by that many rows of u32 words.
write_rows(w, rows) == write_u32s(write_u32(w, Len(rows)), Concat(rows))

\* RulesManifest of the scenario's rules.
rules_manifest_from_rules(rules) ==
    [ white_king |-> rules.layout.white_king_index # 0,
      queens     |-> Cardinality({i \in DOMAIN rules.layout.kinds : rules.layout.kinds[i] = "Queen"}),
      rooks      |-> Cardinality({i \in DOMAIN rules.layout.kinds : rules.layout.kinds[i] = "Rook"}),
      bishops    |-> Cardinality({i \in DOMAIN rules.layout.kinds : rules.layout.kinds[i] = "Bishop"}),
      knights    |-> Cardinality({i \in DOMAIN rules.layout.kinds : rules.layout.kinds[i] = "Knight"}),
      move_bound |-> rules.move_bound ]

piece_count_from_manifest(rules) ==
    rules.queens + rules.rooks + rules.bishops + rules.knights
    + (IF rules.white_king THEN 1 ELSE 0)

rules_from_manifest(rules) ==
    Rules_new(from_counts(rules.white_king, rules.queens, rules.rooks, rules.bishops,
                          rules.knights),
              rules.move_bound)

\* write_data: the bytes of data.bin.
write_data(manifest, data) ==
    write_rows(
      write_rows(
        write_rows(
          write_rows(
            write_rows(
              write_states(
                write_u32(
                  write_u32(write_u32(DATA_MAGIC, manifest.format_version),
                            piece_count_from_manifest(manifest.rules)),
                  Len(data.states)),
                data.states),
              [k \in DOMAIN data.trap_set_ids |-> <<data.trap_set_ids[k]>>]),
            [k \in DOMAIN data.tempo_set_ids |-> <<data.tempo_set_ids[k]>>]),
          [k \in DOMAIN data.transitions |->
              <<data.transitions[k][1]>> \o data.transitions[k][2]]),
        data.strategy_trap),
      data.strategy_tempo)

\* The errors of the module.
Io(stage) == [kind |-> "Io", stage |-> stage]

InvalidScenario(reason) == [kind |-> "InvalidScenario", reason |-> reason]

\* One length-prefixed table of rows of `words` u32 words read at `off`.
read_rows_of(bytes, off, words, len) ==
    IF ~can_read(bytes, off + 4, 4 * words * len) THEN [ok |-> FALSE, rows |-> <<>>, next |-> off]
    ELSE [ ok   |-> TRUE,
           rows |-> [i \in 1..len |->
                       [j \in 1..words |->
                           read_u32(bytes, off + 4 + 4 * ((i - 1) * words + (j - 1)))]],
           next |-> off + 4 + 4 * words * len ]

read_rows(bytes, off, words) ==
    IF ~can_read(bytes, off, 4) THEN [ok |-> FALSE, rows |-> <<>>, next |-> off]
    ELSE read_rows_of(bytes, off, words, read_u32(bytes, off))

\* The state table: x, y and `piece_count` raw squares per state.
read_states_of(bytes, off, count, len) ==
    IF ~can_read(bytes, off + 4, (8 + 8 * count) * len)
    THEN [ok |-> FALSE, rows |-> <<>>, next |-> off]
    ELSE [ ok   |-> TRUE,
           rows |-> [i \in 1..len |->
                       State_new(
                         Coord_new(read_i32(bytes, off + 4 + (8 + 8 * count) * (i - 1)),
                                   read_i32(bytes, off + 8 + (8 + 8 * count) * (i - 1))),
                         [j \in 1..count |->
                             read_i64(bytes, off + 12 + (8 + 8 * count) * (i - 1)
                                             + 8 * (j - 1))])],
           next |-> off + 4 + (8 + 8 * count) * len ]

read_states(bytes, off, count) ==
    IF ~can_read(bytes, off, 4) THEN [ok |-> FALSE, rows |-> <<>>, next |-> off]
    ELSE read_states_of(bytes, off, count, read_u32(bytes, off))

\* read_data from the strategy_tempo table on, from the strategy_trap table
\* on, and so on back to the state table.
read_data_6(states, trap_ids, tempo_ids, transitions, strategy_trap, strategy_tempo) ==
    IF ~strategy_tempo.ok THEN Io("solution_load_data_read")
    ELSE [ kind |-> "ok",
           data |-> [ states         |-> states.rows,
                      trap_set_ids   |-> [k \in DOMAIN trap_ids.rows |-> trap_ids.rows[k][1]],
                      tempo_set_ids  |-> [k \in DOMAIN tempo_ids.rows |-> tempo_ids.rows[k][1]],
                      transitions    |-> [k \in DOMAIN transitions.rows |->
                                            <<transitions.rows[k][1],
                                              SubSeq(transitions.rows[k], 2, 9)>>],
                      strategy_trap  |-> strategy_trap.rows,
                      strategy_tempo |-> strategy_tempo.rows ] ]

read_data_5(bytes, states, trap_ids, tempo_ids, transitions, strategy_trap) ==
    IF ~strategy_trap.ok THEN Io("solution_load_data_read")
    ELSE read_data_6(states, trap_ids, tempo_ids, transitions, strategy_trap,
                     read_rows(bytes, strategy_trap.next, 2))

read_data_4(bytes, states, trap_ids, tempo_ids, transitions) ==
    IF ~transitions.ok THEN Io("solution_load_data_read")
    ELSE read_data_5(bytes, states, trap_ids, tempo_ids, transitions,
                     read_rows(bytes, transitions.next, 2))

read_data_3(bytes, states, trap_ids, tempo_ids) ==
    IF ~tempo_ids.ok THEN Io("solution_load_data_read")
    ELSE read_data_4(bytes, states, trap_ids, tempo_ids, read_rows(bytes, tempo_ids.next, 9))

read_data_2(bytes, states, trap_ids) ==
    IF ~trap_ids.ok THEN Io("solution_load_data_read")
    ELSE read_data_3(bytes, states, trap_ids, read_rows(bytes, trap_ids.next, 1))

read_data_1(bytes, states) ==
    IF ~states.ok THEN Io("solution_load_data_read")
    ELSE read_data_2(bytes, states, read_rows(bytes, states.next, 1))

\* read_data: Ok(SolutionData) or the error.
read_data(bytes, count) ==
    IF ~can_read(bytes, 0, 8) THEN Io("solution_load_data_read")
    ELSE IF SubSeq(bytes, 1, 8) # DATA_MAGIC
    THEN InvalidScenario("solution data.bin has wrong magic bytes")
    ELSE IF ~can_read(bytes, 8, 4) THEN Io("solution_load_data_read")
    ELSE IF read_u32(bytes, 8) # FORMAT_VERSION
    THEN InvalidScenario("solution data.bin version is not supported")
    ELSE IF ~can_read(bytes, 12, 4) THEN Io("solution_load_data_read")
    ELSE IF read_u32(bytes, 12) # count
    THEN InvalidScenario("solution data.bin piece_count mismatches manifest")
    ELSE read_data_1(bytes, read_states(bytes, 16, count))

\* serde_json: a number is written as its decimal digits, with a sign if
\* negative, and read back from them.
Digits == <<"0", "1", "2", "3", "4", "5", "6", "7", "8", "9">>

RECURSIVE to_decimal(_)
to_decimal(n) ==
    IF n < 10 THEN <<Digits[n + 1]>> ELSE to_decimal(n \div 10) \o <<Digits[(n % 10) + 1]>>

RECURSIVE from_decimal(_)
from_decimal(text) ==
    IF text = <<>> THEN 0
    ELSE 10 * from_decimal(SubSeq(text, 1, Len(text) - 1))
         + (CHOOSE d \in 0..9 : Digits[d + 1] = text[Len(text)])

to_json_number(n) == IF n < 0 THEN <<"-">> \o to_decimal(-n) ELSE to_decimal(n)

from_json_number(text) ==
    IF Head(text) = "-" THEN -from_decimal(Tail(text)) ELSE from_decimal(text)

to_json_bool(b) == IF b THEN "true" ELSE "false"

from_json_bool(text) == text = "true"

\* #[serde(rename_all = "lowercase")] of ManifestSide and ViewMode.
to_json_lowercase(v) ==
    CASE v = "Black" -> "black" [] v = "White" -> "white"
      [] v = "Relative" -> "relative" [] v = "Absolute" -> "absolute"

from_json_lowercase(text) ==
    CASE text = "black" -> "Black" [] text = "white" -> "White"
      [] text = "relative" -> "Relative" [] text = "absolute" -> "Absolute"

\* write_manifest: manifest.json.
write_manifest(manifest) ==
    [ format_version    |-> to_json_number(manifest.format_version),
      created_unix_secs |-> to_json_number(manifest.created_unix_secs),
      scenario_name     |-> manifest.scenario_name,
      rules  |-> [ white_king |-> to_json_bool(manifest.rules.white_king),
                   queens     |-> to_json_number(manifest.rules.queens),
                   rooks      |-> to_json_number(manifest.rules.rooks),
                   bishops    |-> to_json_number(manifest.rules.bishops),
                   knights    |-> to_json_number(manifest.rules.knights),
                   move_bound |-> to_json_number(manifest.rules.move_bound) ],
      params |-> [ white_can_pass    |-> to_json_bool(manifest.params.white_can_pass),
                   track_abs_king    |-> to_json_bool(manifest.params.track_abs_king),
                   remove_stalemates |-> to_json_bool(manifest.params.remove_stalemates) ],
      start  |-> [ to_move  |-> to_json_lowercase(manifest.start.to_move),
                   state_id |-> to_json_number(manifest.start.state_id) ],
      view   |-> [ default_mode      |-> to_json_lowercase(manifest.view.default_mode),
                   recommended_bound |-> to_json_number(manifest.view.recommended_bound) ],
      counts |-> [ states         |-> to_json_number(manifest.counts.states),
                   trap           |-> to_json_number(manifest.counts.trap),
                   tempo          |-> to_json_number(manifest.counts.tempo),
                   trap_strategy  |-> to_json_number(manifest.counts.trap_strategy),
                   tempo_strategy |-> to_json_number(manifest.counts.tempo_strategy) ],
      files  |-> [ data_bin |-> manifest.files.data_bin ] ]

\* read_manifest: the SolutionManifest parsed from manifest.json.
read_manifest(json) ==
    [ format_version    |-> from_json_number(json.format_version),
      created_unix_secs |-> from_json_number(json.created_unix_secs),
      scenario_name     |-> json.scenario_name,
      rules  |-> [ white_king |-> from_json_bool(json.rules.white_king),
                   queens     |-> from_json_number(json.rules.queens),
                   rooks      |-> from_json_number(json.rules.rooks),
                   bishops    |-> from_json_number(json.rules.bishops),
                   knights    |-> from_json_number(json.rules.knights),
                   move_bound |-> from_json_number(json.rules.move_bound) ],
      params |-> [ white_can_pass    |-> from_json_bool(json.params.white_can_pass),
                   track_abs_king    |-> from_json_bool(json.params.track_abs_king),
                   remove_stalemates |-> from_json_bool(json.params.remove_stalemates) ],
      start  |-> [ to_move  |-> from_json_lowercase(json.start.to_move),
                   state_id |-> from_json_number(json.start.state_id) ],
      view   |-> [ default_mode      |-> from_json_lowercase(json.view.default_mode),
                   recommended_bound |-> from_json_number(json.view.recommended_bound) ],
      counts |-> [ states         |-> from_json_number(json.counts.states),
                   trap           |-> from_json_number(json.counts.trap),
                   tempo          |-> from_json_number(json.counts.tempo),
                   trap_strategy  |-> from_json_number(json.counts.trap_strategy),
                   tempo_strategy |-> from_json_number(json.counts.tempo_strategy) ],
      files  |-> [ data_bin |-> json.files.data_bin ] ]

\* intern_state: the table after the call (ids count from 0).
intern_state(states, s) ==
    IF \E i \in DOMAIN states : states[i] = s THEN states ELSE Append(states, s)

\* The table after intern_state on each of `items` in turn, from the empty
\* table: every state at its first occurrence, in that order.
first_seen(items) == {k \in DOMAIN items : \A j \in 1..(k - 1) : items[j] # items[k]}

nth_of(items, kept, n) ==
    items[CHOOSE k \in kept : Cardinality({j \in kept : j <= k}) = n]

pick_first_seen(items, kept) == [n \in 1..Cardinality(kept) |-> nth_of(items, kept, n)]

intern_each(items) == pick_first_seen(items, first_seen(items))

id_of(states, s) == (CHOOSE i \in DOMAIN states : states[i] = s) - 1

\* dir_index; -1 stands for None.
dir_index(delta) ==
    CASE delta = Coord_new(-1, 1)  -> 0
      [] delta = Coord_new(0, 1)   -> 1
      [] delta = Coord_new(1, 1)   -> 2
      [] delta = Coord_new(-1, 0)  -> 3
      [] delta = Coord_new(1, 0)   -> 4
      [] delta = Coord_new(-1, -1) -> 5
      [] delta = Coord_new(0, -1)  -> 6
      [] delta = Coord_new(1, -1)  -> 7
      [] OTHER -> -1

\* The steps of `b` export_bundle records: (dir, to) for every step the
\* laws allow, in the order black_moves_with_delta gives them.
recorded_steps_of(b, mvs) ==
    SelectSeq([k \in DOMAIN mvs |->
                  [ dir   |-> dir_index(mvs[k].delta),
                    delta |-> mvs[k].delta,
                    to    |-> State_new(IF scn.track_abs_king
                                        THEN coord_add(b.abs_king, mvs[k].delta)
                                        ELSE b.abs_king,
                                        mvs[k].pos) ]],
              LAMBDA mv : /\ allow_black_move(b, mv.to, mv.delta)
                          /\ allow_state(mv.to)
                          /\ mv.dir # -1)

recorded_steps(b) == recorded_steps_of(b, black_moves_with_delta(scn.rules, b.pos))

has_any_legal_black_move(b) ==
    \E mv \in rules_black_moves_with_delta(b) :
        allow_black_move(b, mv.to, mv.delta) /\ allow_state(mv.to)

\* The order in which a hash set or map is iterated: one of two orders of
\* its elements, the same on every iteration of the same collection.
iter(set, flip) == IF flip THEN Reverse(yielded(set)) ELSE yielded(set)

\* choose_play_start for a non-empty trap.
choose_play_start(trap_iter, primary_iter) ==
    IF \E k \in DOMAIN primary_iter : has_any_legal_black_move(primary_iter[k])
    THEN primary_iter[CHOOSE k \in DOMAIN primary_iter :
                         /\ has_any_legal_black_move(primary_iter[k])
                         /\ \A j \in 1..(k - 1) : ~has_any_legal_black_move(primary_iter[j])]
    ELSE Head(trap_iter)

\* The `next` row of a trap state: the id of the state after each step, or
\* u32::MAX.
next_row(states, steps) ==
    [d \in 1..8 |->
        IF \E k \in DOMAIN steps : steps[k].dir = d - 1
        THEN id_of(states, steps[CHOOSE k \in DOMAIN steps :
                                    /\ steps[k].dir = d - 1
                                    /\ \A j \in DOMAIN steps : steps[j].dir = d - 1 => j <= k].to)
        ELSE u32_MAX]

\* A strategy map as (id, id) pairs in iteration order.
strategy_pairs(states, map, keys) ==
    [k \in DOMAIN keys |-> <<id_of(states, keys[k]), id_of(states, map[keys[k]])>>]

\* Option<i32>.
None == [some |-> FALSE]

Some(v) == [some |-> TRUE, value |-> v]

ExportOptions(compute_tempo, view_bound) ==
    [force |-> TRUE, compute_tempo |-> compute_tempo, view_bound |-> view_bound]

norms_of(trap_set) ==
    {0} \cup UNION {{chebyshev_norm(coord(s.pos[i])) : i \in present(s.pos)} : s \in trap_set}

compute_recommended_bound(trap_set) ==
    CHOOSE n \in norms_of(trap_set) : \A k \in norms_of(trap_set) : k <= n

recommended_bound(trap_set, view_bound) ==
    IF view_bound.some THEN view_bound.value
    ELSE IF scn.candidates.mode = "InLinfBound" THEN scn.candidates.bound
    ELSE max(compute_recommended_bound(trap_set), 2)

\* The states export_bundle interns, in the order it interns them.
interned(play_start, trap_iter, tempo_iter, trap_strategy, trap_keys, tempo_strategy, tempo_keys) ==
    <<play_start>>
    \o trap_iter
    \o Concat([k \in DOMAIN trap_iter |->
                  [j \in DOMAIN recorded_steps(trap_iter[k]) |->
                      recorded_steps(trap_iter[k])[j].to]])
    \o Concat([k \in DOMAIN trap_keys |-> <<trap_keys[k], trap_strategy[trap_keys[k]]>>])
    \o Concat([k \in DOMAIN tempo_keys |-> <<tempo_keys[k], tempo_strategy[tempo_keys[k]]>>])
    \o tempo_iter

\* SolutionData over the finished state table.
solution_data(states, trap_iter, tempo_iter, trap_strategy, trap_keys, tempo_strategy, tempo_keys) ==
    [ states         |-> states,
      trap_set_ids   |-> [k \in DOMAIN trap_iter |-> id_of(states, trap_iter[k])],
      tempo_set_ids  |-> [k \in DOMAIN tempo_iter |-> id_of(states, tempo_iter[k])],
      transitions    |-> [k \in DOMAIN trap_iter |->
                            <<id_of(states, trap_iter[k]),
                              next_row(states, recorded_steps(trap_iter[k]))>>],
      strategy_trap  |-> strategy_pairs(states, trap_strategy, trap_keys),
      strategy_tempo |-> strategy_pairs(states, tempo_strategy, tempo_keys) ]

solution_manifest(options, created_unix_secs, start_id, trap_set, data) ==
    [ format_version    |-> FORMAT_VERSION,
      created_unix_secs |-> created_unix_secs,
      scenario_name     |-> scn.name,
      rules             |-> rules_manifest_from_rules(scn.rules),
      params            |-> [ white_can_pass    |-> scn.white_can_pass,
                              track_abs_king    |-> scn.track_abs_king,
                              remove_stalemates |-> scn.remove_stalemates ],
      start             |-> [to_move |-> "Black", state_id |-> start_id],
      view              |-> [ default_mode      |-> "Relative",
                              recommended_bound |-> recommended_bound(trap_set,
                                                                      options.view_bound) ],
      counts            |-> [ states         |-> Len(data.states),
                              trap           |-> Len(data.trap_set_ids),
                              tempo          |-> Len(data.tempo_set_ids),
                              trap_strategy  |-> Len(data.strategy_trap),
                              tempo_strategy |-> Len(data.strategy_tempo) ],
      files             |-> [data_bin |-> "data.bin"] ]

\* The SolutionBundle returned and the two files written.
written_bundle(manifest, data) ==
    [ kind     |-> "exported",
      manifest |-> manifest,
      data     |-> data,
      dir      |-> ("manifest.json" :> write_manifest(manifest))
                   @@ (manifest.files.data_bin :> write_data(manifest, data)) ]

export_data(options, created_unix_secs, play_start, trap_set, data) ==
    IF Len(data.states) > u32_MAX
    THEN InvalidScenario("too many states to index with u32")
    ELSE written_bundle(solution_manifest(options, created_unix_secs,
                                          id_of(data.states, play_start), trap_set, data),
                        data)

\* export_bundle once the trap, the tempo trap and the strategies are known.
export_tables(options, created_unix_secs, play_start, trap_iter, tempo_iter, trap_strategy, trap_keys, tempo_strategy, tempo_keys) ==
    export_data(options, created_unix_secs, play_start, Range(trap_iter),
                solution_data(intern_each(interned(play_start, trap_iter, tempo_iter,
                                                   trap_strategy, trap_keys,
                                                   tempo_strategy, tempo_keys)),
                              trap_iter, tempo_iter, trap_strategy, trap_keys,
                              tempo_strategy, tempo_keys))

\* compute_winning_region from the built graph on: the loop run to its break.
RECURSIVE compute_winning_region(_)
RECURSIVE winning_region_after(_, _)
compute_winning_region(gr) == winning_region_after(gr, buchi_removed(gr))

winning_region_after(gr, x) ==
    IF x.b = {} /\ x.w = {} THEN gr
    ELSE compute_winning_region([gr EXCEPT !.in_z_b = gr.in_z_b \ x.b,
                                           !.in_z_w = gr.in_z_w \ x.w])

returned_pair(gr) ==
    IF strategy_error(gr)
    THEN [kind |-> "err", set |-> extract_b_set(gr)]
    ELSE [kind |-> "ok", set |-> extract_b_set(gr), sigma |-> extract_tempo_strategy(gr)]

tempo_trap_buchi_with_strategy(b_list) ==
    returned_pair(compute_winning_region(build_graph(b_list)))

\* The start of the recorded play.
play_start_of(trap_iter, tempo_iter) ==
    IF scn.start.state \in Range(trap_iter) /\ has_any_legal_black_move(scn.start.state)
    THEN scn.start.state
    ELSE choose_play_start(trap_iter, IF tempo_iter # <<>> THEN tempo_iter ELSE trap_iter)

\* The map a Vec of (key, value) pairs collects into: a later pair replaces
\* an earlier one with the same key.
collect_map(pairs) ==
    [key \in {pairs[k][1] : k \in DOMAIN pairs} |->
        pairs[CHOOSE k \in DOMAIN pairs :
                 /\ pairs[k][1] = key
                 /\ \A j \in DOMAIN pairs : pairs[j][1] = key => j <= k][2]]

\* load_bundle once the manifest and data.bin are read.
loaded_solution(manifest, rules, data) ==
    IF \E k \in DOMAIN data.transitions : data.transitions[k][1] >= Len(data.states)
    THEN InvalidScenario("transition references out-of-range state_id")
    ELSE [ kind        |-> "ok",
           manifest    |-> manifest,
           rules       |-> rules,
           states      |-> data.states,
           id_of       |-> collect_map([i \in DOMAIN data.states |-> <<data.states[i], i - 1>>]),
           trap_ids    |-> Range(data.trap_set_ids),
           tempo_ids   |-> Range(data.tempo_set_ids),
           transitions |-> [i \in DOMAIN data.states |->
                              IF (i - 1) \in DOMAIN collect_map(data.transitions)
                              THEN collect_map(data.transitions)[i - 1]
                              ELSE [d \in 1..8 |-> u32_MAX]],
           strat_trap  |-> collect_map(data.strategy_trap),
           strat_tempo |-> collect_map(data.strategy_tempo) ]

load_data(manifest, rules, rd) ==
    IF rd.kind # "ok" THEN rd ELSE loaded_solution(manifest, rules, rd.data)

load_rules(manifest, rules, dir) ==
    IF piece_count(rules.layout) # piece_count_from_manifest(manifest.rules)
    THEN InvalidScenario("layout piece_count mismatches manifest")
    ELSE load_data(manifest, rules, read_data(dir["data.bin"], piece_count(rules.layout)))

load_manifest(manifest, dir) ==
    IF manifest.format_version # FORMAT_VERSION
    THEN InvalidScenario("unsupported solution format_version")
    ELSE load_rules(manifest, rules_from_manifest(manifest.rules), dir)

load_bundle(dir) == load_manifest(read_manifest(dir["manifest.json"]), dir)

\* The scenarios exported: those of the candidate generation whose
\* candidates come from a bound or a box, a queen that may not pass in a
\* box the king is kept in, a queen on the open board, and a start outside
\* the box of the candidates (a box of one square has no candidates).
ExportedScenarios ==
    {c \in CandidateScenarios : c.candidates.mode \in {"InLinfBound", "InBox"}}
    \cup
    {WithStart(ChessScenario("box_queen_no_pass", from_counts(FALSE, 1, 0, 0, 0), 2, FALSE,
                             TRUE, InBox(1, TRUE), [kind |-> "AbsBox", bound |-> 1],
                             [kind |-> "KeepKingInAbsBox", bound |-> 1]),
               StartState("Black", State_new(anchor, one_piece(c))), rs) :
        anchor \in {ORIGIN, Coord_new(-1, -1)},
        c \in {Coord_new(1, 0), Coord_new(1, 1), Coord_new(2, 1), Coord_new(0, 1)},
        rs \in BOOLEAN}
    \cup
    {WithStart(ChessScenario("linf_queen", from_counts(FALSE, 1, 0, 0, 0), 1, TRUE, FALSE,
                             InLinfBound(1, TRUE), AllDomain, NoLaws),
               StartState("Black", State_new(ORIGIN, one_piece(Coord_new(1, 1)))), TRUE)}
    \cup
    {WithStart(ChessScenario("box_queen_far_start", from_counts(FALSE, 1, 0, 0, 0), 2, TRUE,
                             TRUE, InBox(bound, bound = 1), AllDomain,
                             [kind |-> "KeepKingInAbsBox", bound |-> 1]),
               StartState("Black", State_new(Coord_new(2, 0), one_piece(Coord_new(-1, 1)))),
               FALSE) :
        bound \in {0, 1}}

BundleScenarios ==
    {WithLimits(sc, ResourceLimits_default, "BothBounded") : sc \in ExportedScenarios}

\* export_bundle up to the call of maximal_inescapable_trap, whose
\* validation repeats this one.
ExportValidate ==
    /\ pc = "export_validate"
    /\ pc' = IF validate /\ scn.start.to_move = "Black" THEN "cand_arm" ELSE "export_invalid"
    /\ tracker' = IF validate /\ scn.start.to_move = "Black"
                  THEN ResourceTracker_new(scn.limits) ELSE tracker
    /\ UNCHANGED <<scn, rounds, trap, queue, strategy, cache, scan, tempoVars, mateVars, bundle>>

\* export_bundle from the returned trap to the written files.
ExportBundle ==
    /\ pc = "trap_done"
    /\ \E compute_tempo, flip \in BOOLEAN, view_bound \in {None, Some(3)},
          created_unix_secs \in {0, 1700} :
          \E tp \in {IF compute_tempo
                     THEN tempo_trap_buchi_with_strategy(iter(trap, flip))
                     ELSE [kind |-> "ok", set |-> {}, sigma |-> EmptyMap]} :
             /\ tempo' = tp
             /\ IF tp.kind = "err"
                THEN /\ bundle' = InvalidScenario("terminal white node inside winning subgame")
                     /\ strategy' = strategy
                ELSE IF trap = {}
                THEN /\ bundle' = InvalidScenario("cannot export: inescapable trap is empty")
                     /\ strategy' = strategy
                ELSE \E st \in {extract_white_stay_strategy(trap, "NoPreferences")} :
                        /\ strategy' = [built |-> TRUE, map |-> st]
                        /\ bundle' = export_tables(
                                        ExportOptions(compute_tempo, view_bound),
                                        created_unix_secs,
                                        play_start_of(iter(trap, flip), iter(tp.set, ~flip)),
                                        iter(trap, flip), iter(tp.set, ~flip),
                                        st, iter(DOMAIN st, flip),
                                        tp.sigma, iter(DOMAIN tp.sigma, ~flip))
    /\ pc' = IF bundle'.kind = "exported" THEN "bundle_exported" ELSE "export_failed"
    /\ UNCHANGED <<scn, rounds, trap, queue, tracker, cache, scan, btm_trap, g, play, mateVars>>

\* load_bundle on the directory export_bundle wrote.
LoadBundle ==
    /\ pc = "bundle_exported"
    /\ bundle' = [loaded |-> load_bundle(bundle.dir)] @@ bundle
    /\ pc' = IF bundle'.loaded.kind = "ok" THEN "bundle_loaded" ELSE "load_failed"
    /\ UNCHANGED <<scn, rounds, trapVars, tempoVars, mateVars>>

BundleInit ==
    /\ scn \in BundleScenarios
    /\ pc = "export_validate"
    /\ trap = {}
    /\ queue = <<>>
    /\ strategy = NoStrategy
    /\ tracker = NoTracker
    /\ cache = NoCache
    /\ scan = NoScan
    /\ rounds = 0
    /\ btm_trap = {}
    /\ g = NoGraph
    /\ tempo = NoResult
    /\ play = NoPlay
    /\ compute_dtm = FALSE
    /\ m = NoGraph
    /\ mate = NoResult
    /\ bundle = NoBundle

BundleNext ==
    \/ ExportValidate
    \/ CandInLinfBound
    \/ CandInBox
    \/ TrapPruneRound
    \/ TrapReturn
    \/ ExportBundle
    \/ LoadBundle

SpecBundle == BundleInit /\ [][BundleNext]_vars

(***************************************************************************)
(* Properties of maximal_inescapable_trap (checked under SpecTrap)         *)
(***************************************************************************)
\* S is closed: every legal black reply from S has a legal white reply into S.
Closed(S) ==
    \A t \in S : \A w \in legal_black_moves(t) :
        \E x \in legal_white_moves(w) : x \in S

\* C1: for every state t of the returned trap and every legal black reply w
\* from t, some legal white reply from w (a pass included, where passing is
\* allowed) is a member of the trap.
C1_TrapIsClosed ==
    pc = "trap_done" =>
        \A t \in trap : \A w \in legal_black_moves(t) :
            \E x \in legal_white_moves(w) : x \in trap

\* A trap was returned after pruning removed states, and one of its states has
\* a black reply from which White can both leave the trap and come back to it.
C1_Witness ==
    /\ pc = "trap_done"
    /\ trap # {}
    /\ trap # initial_candidate_set
    /\ \E t \in trap : \E w \in legal_black_moves(t) :
          /\ \E x \in legal_white_moves(w) : x \notin trap
          /\ \E x \in legal_white_moves(w) : x \in trap

\* C2: the returned trap is the greatest closed subset of the candidate set:
\* no round of the pruning loop removes a state of a closed subset of the
\* candidates, so every such subset is inside the current and the returned set.
C2_TrapIsGreatest ==
    pc \in {"trap_prune", "trap_done"} =>
        \A S \in SUBSET initial_candidate_set : Closed(S) => S \subseteq trap

\* Two rounds removed states and a non-empty closed set of at least two states
\* survived them.
C2_Witness ==
    /\ pc = "trap_done"
    /\ rounds >= 3
    /\ Cardinality(trap) >= 2
    /\ Closed(trap)

(***************************************************************************)
(* Properties of maximal_tempo_trap (checked under SpecTempo)              *)
(*                                                                         *)
(* The game of the claims is read off the scenario and the input set, not  *)
(* off the solver's graph: black nodes are the states of btm_trap, white   *)
(* nodes their legal black replies, white edges the legal white replies    *)
(* that land in btm_trap.                                                  *)
(***************************************************************************)
GameWhite == UNION {legal_black_moves(b) : b \in btm_trap}

GameReplies(w) == {x \in legal_white_moves(w) : x \in btm_trap}

\* Accepting white nodes: a pass is legal at w and w itself is in the trap.
GameAccept ==
    {w \in GameWhite : scn.white_can_pass /\ w \in scn.allowPass /\ w \in btm_trap}

\* The memoryless strategies of White: one reply at every white node that has
\* one.  Buchi games are decided by memoryless strategies, so White has a
\* winning strategy exactly if one of these wins.
Strategies ==
    LET D == {w \in GameWhite : GameReplies(w) # {}}
    IN  {sg \in [D -> btm_trap] : \A w \in D : sg[w] \in GameReplies(w)}

\* The play ends at b: Black has no move, or a move to a node without a reply.
Stuck(sg, b) ==
    \/ legal_black_moves(b) = {}
    \/ \E w \in legal_black_moves(b) : w \notin DOMAIN sg

\* Black nodes one round later, over all black moves.
After(sg, b) == {sg[w] : w \in {x \in legal_black_moves(b) : x \in DOMAIN sg}}

\* Black nodes one round later, over the black moves to non-accepting nodes.
AfterQuiet(sg, b) ==
    {sg[w] : w \in {x \in legal_black_moves(b) : x \in DOMAIN sg /\ x \notin GameAccept}}

RECURSIVE Closure(_, _, _)
Closure(sg, S, quiet) ==
    LET more == UNION {IF quiet THEN AfterQuiet(sg, b) ELSE After(sg, b) : b \in S}
    IN  IF more \subseteq S THEN S ELSE Closure(sg, S \cup more, quiet)

\* Every play from b that follows sg is infinite and visits accepting white
\* nodes infinitely often: no reachable node is stuck and none lies on a cycle
\* of non-accepting white nodes.
WinsFrom(sg, b) ==
    \A r \in Closure(sg, {b}, FALSE) :
        /\ ~Stuck(sg, r)
        /\ r \notin Closure(sg, AfterQuiet(sg, r), TRUE)

BuchiWinning == {b \in btm_trap : \E sg \in Strategies : WinsFrom(sg, b)}

\* C3: the set returned by maximal_tempo_trap(scn, T) is a subset of T, for
\* every scenario and every input set T.
C3_TempoSubsetOfInput == pc = "tempo_done" => tempo.set \subseteq btm_trap

\* White nodes that are not in the input set were discovered, some input
\* states were pruned and some were kept.
C3_Witness ==
    /\ pc = "tempo_done"
    /\ tempo.set # {}
    /\ tempo.set # btm_trap
    /\ \E w \in g.in_z_w : w \notin btm_trap

\* C4: a black node is returned exactly if White has a strategy that keeps the
\* play in the graph forever and visits accepting white nodes infinitely often
\* against every black strategy.
C4_TempoIsBuchiRegion == pc = "tempo_done" => tempo.set = BuchiWinning

\* The loop removed nodes in two iterations, or kept a proper non-empty part
\* of an input with accepting and non-accepting white nodes.
C4_Witness ==
    /\ pc = "tempo_done"
    /\ tempo.set # {}
    /\ tempo.set # btm_trap
    /\ g.is_accept_w # {}
    /\ g.is_accept_w # g.w_list
    /\ \E w \in g.in_z_w : w \notin g.is_accept_w

\* C6: every state of the tempo trap has a legal black move, so no checkmate
\* is a member, also when it is a member of the input trap.
C6_TempoHasNoTerminal ==
    pc = "tempo_done" =>
        \A b \in tempo.set : legal_black_moves(b) # {} /\ ~is_checkmate_with_laws(b)

\* The input held a checkmate and the returned set is not empty.
C6_Witness ==
    /\ pc = "tempo_done"
    /\ tempo.set # {}
    /\ \E b \in btm_trap : is_checkmate_with_laws(b)

\* C7: with white_can_pass = false the tempo trap is empty for every input.
C7_NoPassNoTempo ==
    (pc = "tempo_done" /\ ~scn.white_can_pass) => tempo.set = {}

\* The input is a non-empty closed trap without terminal states, in a scenario
\* that forbids passing.
C7_Witness ==
    /\ pc = "tempo_done"
    /\ ~scn.white_can_pass
    /\ btm_trap # {}
    /\ Closed(btm_trap)
    /\ \A b \in btm_trap : legal_black_moves(b) # {}

(***************************************************************************)
(* Properties of tempo_trap_buchi_with_strategy (checked under             *)
(* SpecTempoPlay)                                                          *)
(***************************************************************************)
\* The strategy answers every black reply from the returned set with a legal
\* white reply into the returned set.
StrategyStays ==
    (pc = "tempo_done" /\ tempo.kind = "ok") =>
        \A b \in tempo.set : \A w \in legal_black_moves(b) :
            /\ w \in DOMAIN tempo.sigma
            /\ tempo.sigma[w] \in legal_white_moves(w)
            /\ tempo.sigma[w] \in tempo.set

\* A pass is legal for White at the current state of the play.
PassLegalHere ==
    /\ play.on
    /\ play.turn = "white"
    /\ scn.white_can_pass
    /\ play.pos \in scn.allowPass

\* C5: the returned strategy is defined on every white node reachable by a
\* legal black move from the returned set and answers with a legal reply into
\* the set; in every infinite play from the set in which White follows it,
\* every black-to-move state is in the set and white-to-move states at which a
\* pass is legal come again and again.
C5_StrategyWins ==
    /\ [](StrategyStays)
    /\ []((play.on /\ play.turn = "black") => play.pos \in tempo.set)
    /\ play.on ~> PassLegalHere

\* A play is at a white node where no pass is legal, and the strategy moves a
\* piece there although the node itself is not accepting.
C5_Witness ==
    /\ play.on
    /\ play.turn = "white"
    /\ play.pos \notin g.is_accept_w
    /\ tempo.sigma[play.pos] # play.pos
    /\ Cardinality(succ_in_z(g, play.pos)) >= 2

(***************************************************************************)
(* Properties of forced_mate_bounded (checked under SpecMate)              *)
(***************************************************************************)
\* The black replies of b and the white replies of w that stay in the universe.
RepliesInU(b) == {w \in legal_black_moves(b) : w \in mate_universe}

AnswersInU(w) == {b \in legal_white_moves(w) : b \in mate_universe}

\* b has a reply, every reply stays in the universe, and every reply has a
\* white answer into S.
Forced(S, b) ==
    /\ RepliesInU(b) # {}
    /\ legal_black_moves(b) \subseteq mate_universe
    /\ \A w \in RepliesInU(b) : AnswersInU(w) \cap S # {}

\* The checkmates of the bounded universe.
MateTerminals ==
    {b \in mate_universe : b \in scn.attacked /\ legal_black_moves(b) = {}}

MateStep(S) == MateTerminals \cup {b \in mate_universe : Forced(S, b)}

\* The least set closed under MateStep: what every closed set contains.
LeastMateRegion ==
    {b \in mate_universe :
        \A S \in SUBSET mate_universe : MateStep(S) \subseteq S => b \in S}

\* C8: from a state of the returned region no legal black reply leaves the
\* universe, and every legal black reply has a legal white move to a state of
\* the universe that is in the region.
C8_RegionIsClosed ==
    (pc = "mate_done" /\ mate.kind = "ok") =>
        \A b \in mate.winning_btm :
            /\ legal_black_moves(b) \subseteq mate_universe
            /\ \A w \in legal_black_moves(b) :
                 \E bpos \in legal_white_moves(w) :
                     bpos \in mate_universe /\ bpos \in mate.winning_btm

\* A state that is not a mate terminal is returned while another state, whose
\* in-universe replies are all answered into the region, is kept out by an
\* escaping reply.
C8_Witness ==
    /\ pc = "mate_done"
    /\ mate.kind = "ok"
    /\ mate.winning_btm \ MateTerminals # {}
    /\ \E b \in mate_universe \ mate.winning_btm :
          /\ ~(legal_black_moves(b) \subseteq mate_universe)
          /\ \A w \in RepliesInU(b) : AnswersInU(w) \cap mate.winning_btm # {}

\* C9: the returned region is the least set that contains the mate terminals
\* and every state with an in-universe reply, no escaping reply and a white
\* answer into the set for each reply.
C9_RegionIsLeastFixpoint ==
    (pc = "mate_done" /\ mate.kind = "ok") => mate.winning_btm = LeastMateRegion

\* The region holds a state that is not a mate terminal, and a strictly larger
\* set is a fixpoint too, so that "least" decides the answer.
C9_Witness ==
    /\ pc = "mate_done"
    /\ mate.kind = "ok"
    /\ mate.winning_btm \ MateTerminals # {}
    /\ \E S \in SUBSET mate_universe :
          /\ MateStep(S) = S
          /\ S # mate.winning_btm

\* C10: an entry of the DTM map is 0 exactly when the state is in check and
\* has no in-universe black reply, and then the state is a checkmate with no
\* legal black move at all.
C10_DtmZeroIsMate ==
    (pc = "mate_done" /\ mate.kind = "ok" /\ mate.has_dtm) =>
        \A b \in DOMAIN mate.dtm :
            /\ mate.dtm[b] = 0 <=> (b \in scn.attacked /\ RepliesInU(b) = {})
            /\ mate.dtm[b] = 0 =>
                 /\ is_checkmate_with_laws(b)
                 /\ legal_black_moves(b) = {}

\* The map holds a mate, and a state in check that has replies and a greater
\* depth.
C10_Witness ==
    /\ pc = "mate_done"
    /\ mate.kind = "ok"
    /\ mate.has_dtm
    /\ \E b \in DOMAIN mate.dtm : mate.dtm[b] = 0
    /\ \E b \in DOMAIN mate.dtm :
          /\ b \in scn.attacked
          /\ RepliesInU(b) # {}
          /\ mate.dtm[b] >= 2

\* The greatest and the least element of a non-empty set of naturals.
SetMax(V) == CHOOSE v \in V : \A u \in V : u <= v

SetMin(V) == CHOOSE v \in V : \A u \in V : v <= u

\* The white answers from w that land on a state of the returned region.
WinningAnswers(w) == AnswersInU(w) \cap mate.winning_btm

\* C11: with compute_dtm the call returns without an error a map that gives
\* every state of the winning region a finite value, and a winning state that
\* is not a mate terminal has 1 + the maximum over its legal black replies w
\* of 1 + the minimum of the values of the white answers from w into the region.
C11_DtmRecurrence ==
    (pc = "mate_done" /\ compute_dtm) =>
        /\ mate.kind = "ok"
        /\ mate.has_dtm
        /\ DOMAIN mate.dtm = mate.winning_btm
        /\ \A b \in mate.winning_btm :
              /\ mate.dtm[b] \in Nat
              /\ b \notin MateTerminals =>
                    /\ legal_black_moves(b) # {}
                    /\ \A w \in legal_black_moves(b) : WinningAnswers(w) # {}
                    /\ mate.dtm[b] =
                         1 + SetMax({1 + SetMin({mate.dtm[x] : x \in WinningAnswers(w)}) :
                                        w \in legal_black_moves(b)})

\* A winning state has two replies of different depth, and one of its replies
\* has two winning answers of different depth.
C11_Witness ==
    /\ pc = "mate_done"
    /\ compute_dtm
    /\ mate.kind = "ok"
    /\ \E b \in mate.winning_btm \ MateTerminals :
          /\ \E w1, w2 \in legal_black_moves(b) :
                SetMin({mate.dtm[x] : x \in WinningAnswers(w1)})
                    < SetMin({mate.dtm[x] : x \in WinningAnswers(w2)})
          /\ \E w \in legal_black_moves(b) : \E x1, x2 \in WinningAnswers(w) :
                mate.dtm[x1] < mate.dtm[x2]

(***************************************************************************)
(* Properties of the chess rules and of move generation (checked under     *)
(* SpecChess)                                                              *)
(***************************************************************************)
\* The state reached from s by the king step delta.
StepTo(s, delta) ==
    State_new(IF scn.track_abs_king THEN coord_add(s.abs_king, delta) ELSE s.abs_king,
              black_step_next(scn.rules, s.pos, delta))

\* The king steps from s that the rules keep and the laws allow.
OpenSteps(s) ==
    {delta \in Range(KING_STEPS) :
        /\ black_step_kept(scn.rules, s.pos, delta)
        /\ allow_black_move(s, StepTo(s, delta), delta)
        /\ allow_state(StepTo(s, delta))}

\* C12: a king step that the rules keep and the laws allow is returned by
\* legal_black_moves wherever it takes the pieces relative to the enumeration
\* bound, and a position with such a step is not a checkmate.
C12_BoundIsNoWall ==
    pc = "chess_play" =>
        \A delta \in OpenSteps(play.pos) :
            /\ StepTo(play.pos, delta) \in legal_black_moves(play.pos)
            /\ ~is_checkmate_with_laws(play.pos)

\* Black is in check inside the enumeration bound, and every step out of the
\* check takes a piece beyond the bound.
C12_Witness ==
    /\ pc = "chess_play"
    /\ play.turn = "Black"
    /\ within_candidate_bound(play.pos)
    /\ rules_is_attacked(play.pos)
    /\ OpenSteps(play.pos) # {}
    /\ \A delta \in OpenSteps(play.pos) : ~within_candidate_bound(StepTo(play.pos, delta))

\* The pieces of a position: kind and square, whatever the slot.
PiecesOf(layout, pos) ==
    {[kind |-> layout.kinds[i], at |-> coord(pos[i])] : i \in present(pos)}

\* NONE first, then by x, then by y.
SquareLeq(a, b) ==
    \/ a = NONE
    \/ /\ b # NONE
       /\ \/ coord(a).x < coord(b).x
          \/ coord(a).x = coord(b).x /\ coord(a).y <= coord(b).y

\* Inside every run of identical pieces the squares ascend.
IsCanonical(layout, pos) ==
    \A i, j \in DOMAIN pos :
        (i < j /\ run_of(layout, i) = run_of(layout, j)) => SquareLeq(pos[i], pos[j])

\* The position with the piece on the square c (if any) taken off.
Captured(pos, c) ==
    [i \in DOMAIN pos |-> IF ~is_none(pos[i]) /\ coord(pos[i]) = c THEN NONE ELSE pos[i]]

\* The white king stands on the square c.
WhiteKingOn(layout, pos, c) ==
    \E i \in present(pos) : layout.kinds[i] = "King" /\ coord(pos[i]) = c

\* C13: black_moves_with_delta returns, once each, exactly the king steps
\* delta that are not the white king's square and whose re-centred position
\* (the piece on delta captured, canonicalised) is legal with the origin not
\* attacked; so the king never steps onto a square that is attacked once the
\* piece on it is gone, and never takes the white king.
C13_BlackMovesExact ==
    pc = "chess_play" =>
        LET rules == scn.rules
            pos   == play.pos.pos
            out   == black_moves_with_delta(rules, pos)
        IN  /\ \A k, l \in DOMAIN out : out[k].delta = out[l].delta => k = l
            /\ \A delta \in Range(KING_STEPS) :
                  LET next == black_step_next(rules, pos, delta)
                  IN  /\ PiecesOf(rules.layout, next)
                            = {[kind |-> p.kind, at |-> coord_sub(p.at, delta)] :
                                 p \in {q \in PiecesOf(rules.layout, pos) : q.at # delta}}
                      /\ IsCanonical(rules.layout, next)
                      /\ [delta |-> delta, pos |-> next] \in Range(out)
                            <=> /\ ~WhiteKingOn(rules.layout, pos, delta)
                                /\ is_legal_position(rules, next)
                                /\ ~is_attacked(rules, ORIGIN, next)
            /\ \A k \in DOMAIN out :
                  /\ out[k].delta \in Range(KING_STEPS)
                  /\ out[k].pos = black_step_next(rules, pos, out[k].delta)
                  /\ ~WhiteKingOn(rules.layout, pos, out[k].delta)
                  /\ ~is_attacked(rules, out[k].delta, Captured(pos, out[k].delta))

\* A position where one step is refused because it is attacked, another
\* because the piece on it is defended, and a third captures an undefended
\* piece.
C13_Witness ==
    /\ pc = "chess_play"
    /\ LET rules  == scn.rules
           pos    == play.pos.pos
           out    == black_moves_with_delta(rules, pos)
           deltas == {out[k].delta : k \in DOMAIN out}
           taken  == {p.at : p \in PiecesOf(rules.layout, pos)}
       IN  /\ \E d \in Range(KING_STEPS) \ (deltas \cup taken) : is_attacked(rules, d, pos)
           /\ \E d \in (Range(KING_STEPS) \cap taken) \ deltas :
                 ~WhiteKingOn(rules.layout, pos, d)
           /\ deltas \cap taken # {}

\* The unit directions a sliding piece moves along.
LinesOf(kind) ==
    {d \in [x : -1..1, y : -1..1] :
        /\ d # ORIGIN
        /\ kind = "Rook" => (d.x = 0 \/ d.y = 0)
        /\ kind = "Bishop" => (d.x # 0 /\ d.y # 0)}

Sliders == {"Queen", "Rook", "Bishop"}

\* From `from`, k steps along d are free: none of the k squares is the origin
\* or holds a piece.
FreeRun(layout, pos, from, d, k) ==
    \A j \in 1..k :
        LET c == coord_add(from, coord_mul(d, j))
        IN  c # ORIGIN /\ c \notin {p.at : p \in PiecesOf(layout, pos)}

\* C14: a position that white_moves produces by moving a queen, rook or
\* bishop differs from the original only in that piece's square, which lies
\* k steps (1 <= k <= move_bound) along one of the piece's directions, with
\* neither the origin nor another piece on any of the k squares traversed,
\* the destination included.
C14_SlidersDoNotJump ==
    (pc = "chess_play" /\ play.turn = "White") =>
        LET rules == scn.rules
            pos   == play.pos.pos
            mvs   == white_pushes(rules, pos)
        IN  \A n \in DOMAIN mvs :
               LET mv   == mvs[n]
                   kind == rules.layout.kinds[mv.idx]
                   from == coord(pos[mv.idx])
               IN  kind \in Sliders =>
                      /\ PiecesOf(rules.layout, mv.pos)
                            = (PiecesOf(rules.layout, pos) \ {[kind |-> kind, at |-> from]})
                              \cup {[kind |-> kind, at |-> mv.to]}
                      /\ Cardinality(present(mv.pos)) = Cardinality(present(pos))
                      /\ \E d \in LinesOf(kind) : \E k \in 1..rules.move_bound :
                            /\ mv.to = coord_add(from, coord_mul(d, k))
                            /\ FreeRun(rules.layout, pos, from, d, k)

\* A slider moves two squares along one line, while on another line a piece
\* one step away and on a third the origin one step away leave it no move.
C14_Witness ==
    /\ pc = "chess_play"
    /\ play.turn = "White"
    /\ LET rules == scn.rules
           pos   == play.pos.pos
           mvs   == white_pushes(rules, pos)
       IN  \E i \in present(pos) :
              LET kind == rules.layout.kinds[i]
                  from == coord(pos[i])
                  tos  == {mvs[n].to : n \in {n \in DOMAIN mvs : mvs[n].idx = i}}
              IN  /\ kind \in Sliders
                  /\ \E d \in LinesOf(kind) : coord_add(from, coord_mul(d, 2)) \in tos
                  /\ \E d \in LinesOf(kind) :
                        /\ coord_add(from, d) \in {p.at : p \in PiecesOf(rules.layout, pos)}
                        /\ coord_add(from, coord_mul(d, 2)) \notin tos
                        /\ in_linf_bound(coord_add(from, coord_mul(d, 2)), MaxCoord)
                  /\ \E d \in LinesOf(kind) :
                        /\ coord_add(from, d) = ORIGIN
                        /\ coord_add(from, coord_mul(d, 2)) \notin tos

\* A position as the rules want it: canonical, no two pieces on one square,
\* none on the origin, the white king not next to the origin.
WellFormed(layout, pos) ==
    /\ Len(pos) = Len(layout.kinds)
    /\ IsCanonical(layout, pos)
    /\ \A i, j \in present(pos) : pos[i] = pos[j] => i = j
    /\ \A i \in present(pos) : coord(pos[i]) # ORIGIN
    /\ \A i \in present(pos) :
          layout.kinds[i] = "King" =>
              (coord(pos[i]).x \notin -1..1 \/ coord(pos[i]).y \notin -1..1)

\* C15: every position emitted by the enumerators, kept from a caller's list,
\* or produced by black or white move generation after any sequence of moves
\* is canonical, has no two present pieces on one square, none on the origin,
\* and has the white king at Chebyshev distance above 1.
C15_PositionsWellFormed ==
    pc = "chess_play" =>
        LET layout == scn.rules.layout
            blacks == black_moves(scn.rules, play.pos.pos)
            whites == white_moves(scn.rules, play.pos.pos, FALSE)
        IN  /\ WellFormed(layout, play.pos.pos)
            /\ \A k \in DOMAIN blacks : WellFormed(layout, blacks[k])
            /\ \A k \in DOMAIN whites : WellFormed(layout, whites[k])
            /\ \A to \in legal_black_moves(play.pos) \cup legal_white_moves(play.pos) :
                  WellFormed(layout, to.pos)

\* A white move of one of two identical pieces lands it in the other's slot
\* (the run is sorted again), and a black step captures a piece.
C15_Witness ==
    /\ pc = "chess_play"
    /\ LET rules == scn.rules
           pos   == play.pos.pos
           mvs   == white_pushes(rules, pos)
           outs  == black_moves_with_delta(rules, pos)
       IN  /\ \E n \in DOMAIN mvs : mvs[n].pos[mvs[n].idx] # from_coord(mvs[n].to)
           /\ \E k \in DOMAIN outs :
                 Cardinality(present(outs[k].pos)) < Cardinality(present(pos))

\* The rearrangements of the slots that keep every slot inside its run.
RunPermutations(layout) ==
    {f \in [DOMAIN layout.kinds -> DOMAIN layout.kinds] :
        /\ \A i, j \in DOMAIN layout.kinds : f[i] = f[j] => i = j
        /\ \A i \in DOMAIN layout.kinds : run_of(layout, f[i]) = run_of(layout, i)}

\* C16: canonicalize is idempotent, and positions that differ only by a
\* rearrangement of squares inside runs of identical pieces have the same
\* canonical form.
C16_CanonicalizeIsNormalForm ==
    pc = "chess_raw" =>
        LET layout == scn.rules.layout
            pos    == play.raw.pos
            canon  == canonicalize(pos, layout)
        IN  /\ canonicalize(canon, layout) = canon
            /\ IsCanonical(layout, canon)
            /\ \A f \in RunPermutations(layout) :
                  canonicalize([i \in DOMAIN pos |-> pos[f[i]]], layout) = canon

\* A given position with two identical pieces on one file in descending
\* order, the later one at a negative y.
C16_Witness ==
    /\ pc = "chess_raw"
    /\ LET layout == scn.rules.layout
           pos    == play.raw.pos
       IN  /\ canonicalize(pos, layout) # pos
           /\ \E f \in RunPermutations(layout) : [i \in DOMAIN pos |-> pos[f[i]]] # pos
           /\ \E i, j \in DOMAIN pos :
                 /\ i < j
                 /\ run_of(layout, i) = run_of(layout, j)
                 /\ ~is_none(pos[j])
                 /\ coord(pos[i]).x = coord(pos[j]).x
                 /\ coord(pos[i]).y > coord(pos[j]).y
                 /\ coord(pos[j]).y < 0

(***************************************************************************)
(* Properties of initial_candidate_set (checked under SpecCandidates)      *)
(***************************************************************************)
\* Black is not in check and has no move that the rules and the laws allow.
StalemateUnderLaws(s) ==
    /\ ~rules_is_attacked(s)
    /\ \A mv \in rules_black_moves_with_delta(s) :
          ~(allow_black_move(s, mv.to, mv.delta) /\ allow_state(mv.to))

\* C17: whatever the candidate-generation mode, every state put into the
\* candidate set is legal under the rules, allowed by allow_state, inside the
\* domain and, when remove_stalemates is set, not a stalemate.
C17_CandidatesAreAdmissible ==
    \A s \in trap :
        /\ rules_is_legal_position(s)
        /\ allow_state(s)
        /\ inside(s)
        /\ scn.remove_stalemates => ~StalemateUnderLaws(s)

\* The walk from the start has ended with several candidates, having met a
\* reply outside the domain and a stalemate inside it, both left out.
C17_Witness ==
    /\ pc = "trap_prune"
    /\ rounds = 0
    /\ scn.candidates.mode = "ReachableFromStart"
    /\ scn.remove_stalemates
    /\ Cardinality(trap) >= 3
    /\ \E t \in trap : \E w \in legal_black_moves(t) : \E x \in legal_white_moves(w) :
          x \notin trap /\ ~inside(x)
    /\ \E t \in trap : \E w \in legal_black_moves(t) : \E x \in legal_white_moves(w) :
          x \notin trap /\ inside(x) /\ StalemateUnderLaws(x)

(***************************************************************************)
(* Domain semantics of the pruning loop (checked under SpecTrap)           *)
(***************************************************************************)
\* The black moves from t that the rules and the laws allow and that end
\* outside the domain.
DomainLeavingMoves(t) ==
    {mv.to : mv \in {x \in rules_black_moves_with_delta(t) :
                        /\ allow_black_move(t, x.to, x.delta)
                        /\ allow_state(x.to)
                        /\ ~inside(x.to)}}

\* C18: a black move from a candidate t to a state outside the domain is
\* still a legal move; a round of pruning removes t when White has no legal
\* reply to it landing in the current trap, and keeps t when every black move
\* of t, those leaving the domain included, has such a reply.
C18_DomainJudgedAfterReply ==
    [][pc = "trap_prune" =>
          \A t \in trap :
             /\ DomainLeavingMoves(t) \subseteq legal_black_moves(t)
             /\ \A w \in DomainLeavingMoves(t) :
                   (\A x \in legal_white_moves(w) : x \notin trap) => t \notin trap'
             /\ (\A w \in legal_black_moves(t) : \E x \in legal_white_moves(w) : x \in trap)
                   => t \in trap']_vars

\* In the returned trap a state has a move that leaves the domain and is
\* answered back into the trap, while a candidate whose move out of the
\* domain has no white reply at all has been removed.
C18_Witness ==
    /\ pc = "trap_done"
    /\ \E t \in trap : \E w \in DomainLeavingMoves(t) :
          \E x \in legal_white_moves(w) : x \in trap
    /\ \E t \in initial_candidate_set \ trap :
          /\ \E w \in DomainLeavingMoves(t) : legal_white_moves(w) = {}
          /\ \A w \in legal_black_moves(t) : inside(w) => legal_white_moves(w) # {}

(***************************************************************************)
(* The pass (checked under SpecChess)                                      *)
(***************************************************************************)
\* The white moves in which a piece changes square and which the laws allow.
PieceMoves(s) ==
    {to \in {State_new(s.abs_king, mv.pos) : mv \in Range(white_pushes(scn.rules, s.pos))} :
        allow_white_move(s, to) /\ allow_state(to)}

\* C19: legal_white_moves(s) contains s itself exactly when white_can_pass
\* holds and laws.allow_pass(s) does; apart from the pass the list is the same
\* whether the pass is allowed or not.
C19_PassIffAllowed ==
    pc = "chess_play" =>
        LET s == play.pos
        IN  /\ s \in legal_white_moves(s) <=> (scn.white_can_pass /\ allow_pass(s))
            /\ s \notin PieceMoves(s)
            /\ legal_white_moves(s) \ {s} = PieceMoves(s)

\* White may pass in this scenario, the law forbids the pass here, and White
\* has other moves.
C19_Witness ==
    /\ pc = "chess_play"
    /\ play.turn = "White"
    /\ scn.white_can_pass
    /\ ~allow_pass(play.pos)
    /\ play.pos \notin legal_white_moves(play.pos)
    /\ legal_white_moves(play.pos) # {}

RECURSIVE MovesHeld(_)
MovesHeld(map) ==
    IF DOMAIN map = {} THEN 0
    ELSE LET k == CHOOSE key \in DOMAIN map : TRUE
         IN  Len(map[k]) + MovesHeld(map_remove(map, k))

CacheEntries == Cardinality(DOMAIN cache.black) + Cardinality(DOMAIN cache.white)

CacheMoves == MovesHeld(cache.black) + MovesHeld(cache.white)

\* The lengths a single new cache entry can have.
EntryLengths == {Len(black_moves_vec(s)) : s \in State} \cup {Len(replies_vec(s)) : s \in State}

\* C23: with cache_mode BlackOnly or BothBounded, after every lookup of any
\* sequence of black_moves / white_moves lookups the two maps together hold
\* at most max_cache_entries entries and at most max_cached_moves moves, the
\* tracker's cache counters equal these totals, and a lookup has failed only
\* with LimitExceeded for a single new entry that alone exceeds a cap.
C23_CacheStaysWithinCaps ==
    (cache # NoCache /\ scn.cache_mode \in {"BlackOnly", "BothBounded"}) =>
        /\ CacheEntries <= scn.limits.max_cache_entries
        /\ CacheMoves <= scn.limits.max_cached_moves
        /\ tracker.counts.cache_entries = CacheEntries
        /\ tracker.counts.cached_moves = CacheMoves
        /\ tracker.failed # NoError =>
              /\ tracker.failed.kind = "LimitExceeded"
              /\ tracker.failed.stage = "cache"
              /\ tracker.failed.observed > tracker.failed.limit
              /\ \/ /\ tracker.failed.metric = "cache_entries"
                    /\ tracker.failed.limit = scn.limits.max_cache_entries
                    /\ tracker.failed.observed = 1
                 \/ /\ tracker.failed.metric = "cached_moves"
                    /\ tracker.failed.limit = scn.limits.max_cached_moves
                    /\ tracker.failed.observed \in EntryLengths

\* A one-entry cache that holds an entry although more moves were generated
\* than it holds: an older entry was evicted to make room.
C23_Witness ==
    /\ cache # NoCache
    /\ scn.cache_mode = "BothBounded"
    /\ scn.limits.max_cache_entries = 1
    /\ tracker.failed = NoError
    /\ CacheEntries = 1
    /\ DOMAIN cache.white # {}
    /\ tracker.counts.edges > CacheMoves
    /\ tracker.counts.cache_entries = 1

(***************************************************************************)
(* Properties of the tracked solve (checked under SpecTracked and          *)
(* SpecTrackedFair)                                                        *)
(***************************************************************************)
\* The solve has returned: Ok(trap) or Err(tracker.failed).
TkReturned == pc \in {"tk_done", "tk_limit"}

\* C21: maximal_inescapable_trap terminates on every finite candidate set,
\* with a set or with an error: once the candidates are generated the current
\* set never gains a state, every pruning round that does not stop the loop
\* removes at least one state, so the loop makes at most |candidates| + 1
\* rounds, and the solve eventually returns.
C21_PruningTerminates ==
    /\ [][(pc \in {"tk_iter", "tk_scan"}) => (trap' \subseteq trap)]_vars
    /\ [][(pc = "tk_scan" /\ pc' = "tk_iter") => (trap' \subseteq trap /\ trap' # trap)]_vars
    /\ [](pc # "tk_candidates" => rounds <= Cardinality(initial_candidate_set) + 1)
    /\ <>TkReturned

\* A solve that returns a non-empty set after three rounds or more.
C21_Witness ==
    /\ pc = "tk_done"
    /\ rounds >= 3
    /\ trap # {}
    /\ trap # initial_candidate_set

\* The limit the tracker holds for a metric.
LimitOf(metric) ==
    CASE metric = "states"        -> scn.limits.max_states
      [] metric = "edges"         -> scn.limits.max_edges
      [] metric = "cache_entries" -> scn.limits.max_cache_entries
      [] metric = "cached_moves"  -> scn.limits.max_cached_moves
      [] metric = "runtime_steps" -> scn.limits.max_runtime_steps

\* The stages at which the solve bumps a metric.
StagesOf(metric) ==
    CASE metric = "states"        -> {"candidates_in_bound"}
      [] metric = "edges"         -> {"movegen_black", "movegen_white"}
      [] metric = "runtime_steps" -> {"trap_prune_iter", "trap_prune_scan"}
      [] OTHER                    -> {"cache"}

SolveMetrics == {"states", "edges", "runtime_steps"}

\* C22: a bump succeeds exactly when the counter after the addition is at most
\* its limit: while the solve runs or has returned a set, the counters of
\* admitted candidate states, generated edges and loop steps are within their
\* limits, and as soon as one of them goes above its limit the solve has
\* returned LimitExceeded, naming that metric and its stage and carrying the
\* limit, the observed value and the counters, and no trap set.
C22_LimitsAreEnforced ==
    tracker # NoTracker =>
        /\ (pc = "tk_limit") <=> (tracker.failed # NoError)
        /\ (pc = "tk_done") => (tracker.failed = NoError)
        /\ tracker.failed = NoError =>
              \A metric \in SolveMetrics : tracker.counts[metric] <= LimitOf(metric)
        /\ (pc = "tk_candidates" /\ tracker.failed = NoError) =>
              tracker.counts.states = Cardinality(trap)
        /\ (tracker.failed # NoError /\ tracker.failed.metric \in SolveMetrics) =>
              /\ tracker.failed.kind = "LimitExceeded"
              /\ tracker.failed.stage \in StagesOf(tracker.failed.metric)
              /\ tracker.failed.limit = LimitOf(tracker.failed.metric)
              /\ tracker.failed.observed > tracker.failed.limit
              /\ tracker.failed.counts = tracker.counts
              /\ tracker.counts[tracker.failed.metric] = tracker.failed.observed
              /\ \A metric \in SolveMetrics \ {tracker.failed.metric} :
                    tracker.counts[metric] <= LimitOf(metric)
              /\ tracker.failed.metric # "edges" =>
                    tracker.failed.observed = tracker.failed.limit + 1

\* A solve that has filled max_runtime_steps exactly and then fails on the
\* next scanned state.
C22_Witness ==
    /\ tracker # NoTracker
    /\ pc = "tk_limit"
    /\ tracker.failed # NoError
    /\ tracker.failed.metric = "runtime_steps"
    /\ tracker.failed.stage = "trap_prune_scan"
    /\ tracker.failed.observed = scn.limits.max_runtime_steps + 1

(***************************************************************************)
(* Properties of the solvers' results (checked under SpecOrders)           *)
(***************************************************************************)
\* The Buchi iteration run to its end on a graph, and the set it returns.
RECURSIVE buchi_fixpoint(_)
RECURSIVE buchi_after(_, _)
buchi_fixpoint(gr) == buchi_after(gr, buchi_removed(gr))

buchi_after(gr, x) ==
    IF x.b = {} /\ x.w = {} THEN extract_b_set(gr)
    ELSE buchi_fixpoint([gr EXCEPT !.in_z_b = gr.in_z_b \ x.b, !.in_z_w = gr.in_z_w \ x.w])

\* C27: the sets the solvers return are functions of the scenario alone:
\* whatever the order in which the candidates are scanned, the cache entries
\* evicted and the nodes indexed, the set maximal_inescapable_trap returns is
\* the union of the closed subsets of the scenario's candidates, and the set
\* maximal_tempo_trap returns on an input set is the one the run with the
\* input in ascending index order returns.
C27_ResultsIgnoreOrder ==
    /\ pc = "tk_done" =>
          trap = UNION {S \in SUBSET initial_candidate_set : Closed(S)}
    /\ pc = "tempo_done" =>
          tempo.set = buchi_fixpoint(build_graph(ascending(btm_trap)))

\* A trap returned after two rounds or more over three candidates or more,
\* scanned in any order with a cache of two entries that had to evict.
C27_Witness ==
    /\ pc = "tk_done"
    /\ scn.cache_mode = "BothBounded"
    /\ scn.limits.max_cache_entries = 2
    /\ Cardinality(initial_candidate_set) >= 3
    /\ rounds >= 2
    /\ trap # {}
    /\ tracker.counts.edges > tracker.counts.cached_moves

(***************************************************************************)
(* Properties of the candidate generation's errors (checked under          *)
(* SpecCandidates)                                                         *)
(***************************************************************************)
\* C24: during the reachable-from-start candidate generation the BFS queue
\* never holds more than max_queue states; the solve fails exactly on an
\* insertion into a queue that already holds max_queue states, with
\* LimitExceeded for the metric "queue" carrying the limit, the length the
\* queue would have had and the counters, so an insertion that fills the
\* queue to max_queue has succeeded.
C24_QueueStaysWithinLimit ==
    scn.candidates.mode = "ReachableFromStart" =>
        /\ Len(queue) <= scn.candidates.max_queue
        /\ (pc = "cand_limit") <=> (tracker # NoTracker /\ tracker.failed # NoError)
        /\ pc = "cand_limit" =>
              /\ tracker.failed.kind = "LimitExceeded"
              /\ tracker.failed.stage = "candidates_reachable"
              /\ tracker.failed.metric = "queue"
              /\ tracker.failed.limit = scn.candidates.max_queue
              /\ tracker.failed.observed = scn.candidates.max_queue + 1
              /\ tracker.failed.counts = tracker.counts
              /\ Len(queue) = scn.candidates.max_queue
              /\ Cardinality(trap) > Len(queue)

\* The queue was filled to max_queue = 3 and the next new state failed the
\* solve.
C24_Witness ==
    /\ scn.candidates.mode = "ReachableFromStart"
    /\ scn.candidates.max_queue = 3
    /\ pc = "cand_limit"
    /\ Len(queue) = 3
    /\ tracker.failed.metric = "queue"

\* The start position is illegal under the pure rules.
StartIllegal == ~is_legal_position(scn.rules, scn.start.state.pos)

\* The absolute king square is not tracked and the start is not anchored at
\* the origin.
StartOffOrigin == ~scn.track_abs_king /\ scn.start.state.abs_king # ORIGIN

\* The candidates are enumerated in an L-infinity bound and a present piece of
\* the start lies outside it.
StartOutsideBound ==
    /\ scn.candidates.mode = "InLinfBound"
    /\ \E i \in DOMAIN scn.start.state.pos :
          /\ scn.start.state.pos[i] # NONE
          /\ chebyshev_norm(coord(scn.start.state.pos[i])) > scn.candidates.bound

\* Nothing of the solve has happened: no candidate, no queue, no tracker.
NoWorkDone ==
    /\ trap = {}
    /\ queue = <<>>
    /\ tracker = NoTracker
    /\ cache = NoCache
    /\ rounds = 0

StartIsStalemate ==
    /\ ~is_attacked(scn.rules, ORIGIN, scn.start.state.pos)
    /\ legal_black_moves(scn.start.state) = {}

\* C26 as stated: validate returns InvalidScenario whenever remove_stalemates
\* is true and the start state is a stalemate.
C26_StalemateStartRejected ==
    (scn.remove_stalemates /\ StartIsStalemate) =>
        pc \in {"cand_validate", "validate_failed"}

\* C26, amended: validate returns InvalidScenario whenever remove_stalemates is
\* true, Black is to move at the start and the start state is a stalemate;
\* with White to move the stalemate test is not made.
C26_BlackToMoveStalemateRejected ==
    (scn.remove_stalemates /\ scn.start.to_move = "Black" /\ StartIsStalemate) =>
        /\ pc \in {"cand_validate", "validate_failed"}
        /\ NoWorkDone

\* validate has rejected a start that is a stalemate with Black to move and
\* passes every other test.
C26_Witness ==
    /\ pc = "validate_failed"
    /\ scn.remove_stalemates
    /\ scn.start.to_move = "Black"
    /\ StartIsStalemate
    /\ ~StartIllegal /\ ~StartOffOrigin /\ ~StartOutsideBound
    /\ allow_state(scn.start.state)
    /\ inside(scn.start.state)

(***************************************************************************)
(* Properties of the absolute-box enumerator (checked under SpecUniverse)  *)
(***************************************************************************)
\* The squares a piece can have relative to a king at `king`, absent or on a
\* square of the box.
RelSquares(bound, king) ==
    {NONE} \cup {from_coord(coord_sub(c, king)) : c \in Range(box_coords(bound))}

\* The states of the box: the king in the box, the position canonical, every
\* present piece on a square of its own other than the king's, a white king
\* not next to the black king, pieces absent only when captures are allowed.
BoxStates(layout, bound, allow_captures) ==
    UNION {{State_new(king, pos) :
               pos \in {p \in [1..Len(layout.kinds) -> RelSquares(bound, king)] :
                           /\ IsCanonical(layout, p)
                           /\ \A i, j \in present(p) : p[i] = p[j] => i = j
                           /\ \A i \in present(p) : coord(p[i]) # ORIGIN
                           /\ \A i \in present(p) :
                                 layout.kinds[i] = "King" => chebyshev_norm(coord(p[i])) > 1
                           /\ ~allow_captures => present(p) = DOMAIN p}} :
              king \in Range(box_coords(bound))}

\* C28: try_for_each_state_in_abs_box calls its callback with exactly the
\* states of the box (abs_king in the box, pos canonical, every present piece
\* on a distinct absolute square of the box other than the king's, a present
\* white king at Chebyshev distance above 1, pieces absent only when
\* allow_captures), each exactly once: no call repeats an earlier one, so
\* the calls made are as many as the states collected, and when the last
\* call is made the collected states are the states of the box,
\* (2 * bound + 1)^2 of them for the empty layout.
C28_AbsBoxYieldsEachStateOnce ==
    pc = "universe_yield" =>
        /\ queue # <<>> => Head(queue) \notin trap
        /\ rounds = Cardinality(trap)
        /\ queue = <<>> =>
              trap = BoxStates(scn.rules.layout, scn.candidates.bound,
                               scn.candidates.allow_captures)
        /\ Len(scn.rules.layout.kinds) = 0 =>
              rounds + Len(queue) = (2 * scn.candidates.bound + 1) * (2 * scn.candidates.bound + 1)

\* The enumeration of a white king and two rooks with captures in the box of
\* bound 1 has made all its calls.
C28_Witness ==
    /\ pc = "universe_yield"
    /\ queue = <<>>
    /\ scn.rules.layout.kinds = <<"King", "Rook", "Rook">>
    /\ scn.candidates.allow_captures
    /\ rounds > 100

(***************************************************************************)
(* Properties of export_bundle and load_bundle (checked under SpecBundle)  *)
(***************************************************************************)
\* The keys of a table of (key, value) rows.
KeysOf(rows) == {rows[k][1] : k \in DOMAIN rows}

\* C29: a bundle exported and loaded back has the exported state table, trap
\* ids, tempo ids, transition rows and both strategy tables, and the exported
\* manifest; the manifest counts are the sizes of the loaded tables; the
\* rebuilt index id_of maps every stored state to its own id; and the
\* recorded start id is one of the trap ids.
C29_BundleRoundTrips ==
    pc = "bundle_loaded" =>
        /\ bundle.loaded.manifest = bundle.manifest
        /\ bundle.loaded.states = bundle.data.states
        /\ bundle.loaded.trap_ids = Range(bundle.data.trap_set_ids)
        /\ bundle.loaded.tempo_ids = Range(bundle.data.tempo_set_ids)
        /\ \A k \in DOMAIN bundle.data.transitions :
              bundle.loaded.transitions[bundle.data.transitions[k][1] + 1]
                  = bundle.data.transitions[k][2]
        /\ \A i \in DOMAIN bundle.loaded.transitions :
              (i - 1) \notin KeysOf(bundle.data.transitions)
                  => bundle.loaded.transitions[i] = [d \in 1..8 |-> u32_MAX]
        /\ DOMAIN bundle.loaded.strat_trap = KeysOf(bundle.data.strategy_trap)
        /\ \A k \in DOMAIN bundle.data.strategy_trap :
              bundle.loaded.strat_trap[bundle.data.strategy_trap[k][1]]
                  = bundle.data.strategy_trap[k][2]
        /\ DOMAIN bundle.loaded.strat_tempo = KeysOf(bundle.data.strategy_tempo)
        /\ \A k \in DOMAIN bundle.data.strategy_tempo :
              bundle.loaded.strat_tempo[bundle.data.strategy_tempo[k][1]]
                  = bundle.data.strategy_tempo[k][2]
        /\ bundle.loaded.manifest.counts.states = Len(bundle.loaded.states)
        /\ bundle.loaded.manifest.counts.trap = Cardinality(bundle.loaded.trap_ids)
        /\ bundle.loaded.manifest.counts.tempo = Cardinality(bundle.loaded.tempo_ids)
        /\ bundle.loaded.manifest.counts.trap_strategy
              = Cardinality(DOMAIN bundle.loaded.strat_trap)
        /\ bundle.loaded.manifest.counts.tempo_strategy
              = Cardinality(DOMAIN bundle.loaded.strat_tempo)
        /\ \A i \in DOMAIN bundle.loaded.states :
              bundle.loaded.id_of[bundle.loaded.states[i]] = i - 1
        /\ bundle.loaded.manifest.start.state_id \in bundle.loaded.trap_ids

\* A loaded bundle with a tempo trap and a tempo strategy, with a captured
\* piece and a negative coordinate in its state table, with states outside
\* the trap, and with a missing transition.
C29_Witness ==
    /\ pc = "bundle_loaded"
    /\ bundle.loaded.tempo_ids # {}
    /\ DOMAIN bundle.loaded.strat_tempo # {}
    /\ DOMAIN bundle.loaded.strat_trap # {}
    /\ \E i \in DOMAIN bundle.loaded.states :
          /\ \E j \in DOMAIN bundle.loaded.states[i].pos : is_none(bundle.loaded.states[i].pos[j])
          /\ bundle.loaded.states[i].abs_king.x < 0
    /\ \E i \in DOMAIN bundle.loaded.states :
          \E j \in DOMAIN bundle.loaded.states[i].pos :
             ~is_none(bundle.loaded.states[i].pos[j]) /\ bundle.loaded.states[i].pos[j] < 0
    /\ Len(bundle.loaded.states) > Cardinality(bundle.loaded.trap_ids)
    /\ \E i \in DOMAIN bundle.loaded.transitions :
          \E d \in 1..8 : /\ bundle.loaded.transitions[i][d] = u32_MAX
                          /\ bundle.loaded.transitions[i] # [e \in 1..8 |-> u32_MAX]

(***************************************************************************)
(* The winning subgame at the end of the Buchi iteration (SpecTempo)       *)
(***************************************************************************)
\* C30: when the Buchi iteration has ended, every white node of the final Z
\* has a reply to a black node of Z, and every black node of the final Z has
\* a successor and has all its successors in Z; so no white node of Z is
\* without a successor in Z and the strategy extraction does not return its
\* 'terminal white node inside winning subgame' error.
C30_WinningSubgameHasNoDeadEnd ==
    pc = "tempo_done" =>
        /\ \A wi \in g.in_z_w : \E bi \in g.wb_succ[wi] : bi \in g.in_z_b
        /\ \A bi \in g.in_z_b : g.bw_succ[bi] # {} /\ g.bw_succ[bi] \subseteq g.in_z_w
        /\ ~strategy_error(g)
        /\ tempo.kind = "ok"
        /\ DOMAIN tempo.sigma = g.in_z_w

\* The iteration removed nodes and left a non-empty Z; the graph had a white
\* node without any reply into the input set, and a white node that stays in
\* Z lost one of its replies.
C30_Witness ==
    /\ pc = "tempo_done"
    /\ rounds >= 2
    /\ g.in_z_b # {}
    /\ \E wi \in g.w_list : g.wb_succ[wi] = {}
    /\ \E wi \in g.in_z_w : \E bi \in g.wb_succ[wi] : bi \notin g.in_z_b

(***************************************************************************)
(* tests/known_results.rs: the three-rook scenario of src/scenarios/mod.rs *)
(* run through count_checkmates_in_bound, maximal_inescapable_trap and     *)
(* maximal_tempo_trap.                                                     *)
(***************************************************************************)
\* pos_from_coords: the listed squares, canonicalised.
pos_from_coords(layout, coords) ==
    canonicalize([i \in DOMAIN coords |-> from_coord(coords[i])], layout)

\* scenarios::three_rooks_bound2_mb1.  demo_limits() allows a million
\* states and more; no counter of this scenario comes near them, so they
\* are the limits that never fail.
three_rooks_bound2_mb1 ==
    LET layout == from_counts(FALSE, 0, 3, 0, 0)
    IN  WithLimits(
            WithStart(ChessScenario("three_rooks_bound2_mb1", layout, 1, TRUE, FALSE,
                                    InLinfBound(2, TRUE), AllDomain, NoLaws),
                      StartState("Black",
                                 State_new(ORIGIN,
                                           pos_from_coords(layout,
                                               <<Coord_new(2, 2), Coord_new(2, 1),
                                                 Coord_new(1, 2)>>))),
                      TRUE),
            ResourceLimits_default, "BothBounded")

\* search::mates::count_checkmates_in_bound.
count_checkmates_in_bound(rules, bound) ==
    Cardinality({pos \in enumerate_positions_in_bound(rules.layout, bound, FALSE) :
                    is_checkmate(rules, pos)})

\* search::buchi::tempo_trap_buchi: the black nodes of the winning region.
tempo_trap_buchi(b_list) == extract_b_set(compute_winning_region(build_graph(b_list)))

\* The test counts the checkmates of the scenario's rules and bound.
CountCheckmates ==
    /\ pc = "count_checkmates"
    /\ mate' = [kind |-> "count",
                checkmates |-> count_checkmates_in_bound(scn.rules, scn.candidates.bound)]
    /\ pc' = "checkmates_counted"
    /\ UNCHANGED <<scn, rounds, trapVars, tempoVars, compute_dtm, m, bundle>>

\* The InLinfBound arm up to its loop: `queue` holds the states the
\* enumeration has still to hand to the loop.
CandInLinfBoundEnumerate ==
    /\ pc = "cand_arm"
    /\ scn.candidates.mode = "InLinfBound"
    /\ queue' = {State_new(ORIGIN, pos) :
                    pos \in enumerate_positions_in_bound(scn.rules.layout,
                                                         scn.candidates.bound,
                                                         scn.candidates.allow_captures)}
    /\ pc' = "candidates_in_bound"
    /\ UNCHANGED <<scn, rounds, trap, strategy, tracker, cache, scan, tempoVars, mateVars, bundle>>

\* The InBox arm up to its loop.
CandInBoxEnumerate ==
    /\ pc = "cand_arm"
    /\ scn.candidates.mode = "InBox"
    /\ IF ~scn.track_abs_king
       THEN /\ pc' = "cand_invalid"
            /\ UNCHANGED queue
       ELSE /\ pc' = "candidates_in_abs_box"
            /\ queue' = abs_box_states
    /\ UNCHANGED <<scn, rounds, trap, strategy, tracker, cache, scan, tempoVars, mateVars, bundle>>

\* One pass of the loop of the InLinfBound or the InBox arm.
CandEnumerated ==
    /\ pc \in {"candidates_in_bound", "candidates_in_abs_box"}
    /\ \E s \in {CHOOSE s \in queue : TRUE} :
       \E out \in {candidate_step(tracker, trap, s, pc)} :
          /\ trap' = out.trap
          /\ tracker' = out.tk
          /\ queue' = queue \ {s}
          /\ pc' = IF out.tk.failed # NoError THEN "cand_limit"
                   ELSE IF queue = {s} THEN "trap_prune" ELSE pc
    /\ UNCHANGED <<scn, rounds, strategy, cache, scan, tempoVars, mateVars, bundle>>

\* maximal_tempo_trap(&scn, &trap) on the trap just returned.
MaximalTempoTrap ==
    /\ pc = "trap_done"
    /\ IF validate
       THEN /\ tempo' = [kind |-> "ok", set |-> tempo_trap_buchi(yielded(trap))]
            /\ pc' = "tempo_done"
       ELSE /\ tempo' = tempo
            /\ pc' = "validate_failed"
    /\ UNCHANGED <<scn, rounds, trapVars, btm_trap, g, play, mateVars, bundle>>

KnownScenarios == {three_rooks_bound2_mb1}

KnownInit ==
    /\ scn \in KnownScenarios
    /\ pc \in {"cand_validate", "count_checkmates"}
    /\ trap = {}
    /\ queue = <<>>
    /\ tracker = NoTracker
    /\ cache = NoCache
    /\ scan = NoScan
    /\ strategy = NoStrategy
    /\ rounds = 0
    /\ btm_trap = {}
    /\ g = NoGraph
    /\ tempo = NoResult
    /\ play = NoPlay
    /\ compute_dtm = FALSE
    /\ m = NoGraph
    /\ mate = NoResult
    /\ bundle = NoBundle

KnownNext ==
    \/ CountCheckmates
    \/ CandValidate
    \/ CandInLinfBoundEnumerate
    \/ CandEnumerated
    \/ TrapPruneRound
    \/ TrapReturn
    \/ MaximalTempoTrap

SpecKnown == KnownInit /\ [][KnownNext]_vars

\* C31: three rooks with move_bound 1 have exactly 48 checkmates among the
\* positions with all rooks within bound 2; for three_rooks_bound2_mb1 the
\* maximal inescapable trap has exactly 169 states and the maximal tempo
\* trap exactly 113.
C31_KnownCounts ==
    scn = three_rooks_bound2_mb1 =>
        /\ pc = "checkmates_counted" => mate.checkmates = 48
        /\ pc \in {"trap_done", "tempo_done"} => Cardinality(trap) = 169
        /\ pc = "tempo_done" => Cardinality(tempo.set) = 113

\* The tempo trap of the scenario is computed from a non-empty trap that
\* needed at least one pruning round.
C31_Witness ==
    /\ scn = three_rooks_bound2_mb1
    /\ pc = "tempo_done"
    /\ rounds >= 2
    /\ trap # {}
    /\ tempo.set # {}

(***************************************************************************)
(* tests/trap_abs_box.rs: the king alone, or with one rook, in an absolute *)
(* box.                                                                    *)
(***************************************************************************)
\* captured_start: every piece captured.
captured_start(layout) == canonicalize([i \in 1..piece_count(layout) |-> NONE], layout)

\* The scenario the tests build: InBox candidates and the box domain of the
\* same bound, no laws, the king followed, Black to move from the origin.
abs_box_scenario(name, layout, move_bound, white_can_pass, bound, remove_stalemates) ==
    WithLimits(
        WithStart(ChessScenario(name, layout, move_bound, white_can_pass, TRUE,
                                InBox(bound, TRUE), [kind |-> "AbsBox", bound |-> bound],
                                NoLaws),
                  StartState("Black", State_new(ORIGIN, captured_start(layout))),
                  remove_stalemates),
        ResourceLimits_default, "None")

MaxBoxBound == 3

MaxMoveBound == 7

AbsBoxScenarios ==
    {abs_box_scenario("abs_box_no_pieces_enum", from_counts(FALSE, 0, 0, 0, 0), 1, pass,
                      bound, rs) :
        pass \in BOOLEAN, bound \in 0..MaxBoxBound, rs \in BOOLEAN}
    \cup
    {abs_box_scenario("abs_box_one_rook_enum", from_counts(FALSE, 0, 1, 0, 0), move_bound,
                      pass, bound, FALSE) :
        move_bound \in {1, 2, MaxMoveBound}, pass \in BOOLEAN, bound \in 1..2}
    \cup
    {abs_box_scenario("abs_box_one_rook_enum", from_counts(FALSE, 0, 1, 0, 0), MaxMoveBound,
                      TRUE, MaxBoxBound, FALSE)}

AbsBoxInit ==
    /\ scn \in AbsBoxScenarios
    /\ pc = "cand_validate"
    /\ trap = {}
    /\ queue = <<>>
    /\ tracker = NoTracker
    /\ cache = NoCache
    /\ scan = NoScan
    /\ strategy = NoStrategy
    /\ rounds = 0
    /\ btm_trap = {}
    /\ g = NoGraph
    /\ tempo = NoResult
    /\ play = NoPlay
    /\ compute_dtm = FALSE
    /\ m = NoGraph
    /\ mate = NoResult
    /\ bundle = NoBundle

AbsBoxNext ==
    \/ CandValidate
    \/ CandInBoxEnumerate
    \/ CandEnumerated
    \/ TrapPruneRound
    \/ TrapReturn

SpecAbsBox == AbsBoxInit /\ [][AbsBoxNext]_vars

\* C32: with no white piece, no laws, the king followed and the box domain,
\* the trap returned over the box candidates is empty, whatever the bound.
C32_LoneKingLeavesTheBox ==
    (pc = "trap_done" /\ piece_count(scn.rules.layout) = 0) => trap = {}

\* A lone king in a box of bound 2 or more whose candidates took more than
\* one round to prune away.
C32_Witness ==
    /\ pc = "trap_done"
    /\ piece_count(scn.rules.layout) = 0
    /\ scn.candidates.bound >= 2
    /\ rounds >= 3
    /\ trap = {}

\* C33: with one white rook, no laws, the king followed and the box domain,
\* the trap returned over the box candidates is empty, also when White may
\* pass and the rook may move 7 squares.
C33_OneRookCannotConfine ==
    (pc = "trap_done" /\ scn.rules.layout = from_counts(FALSE, 0, 1, 0, 0)) => trap = {}

\* The scenario of the test: pass allowed, move_bound 7, bound 3.
C33_Witness ==
    /\ pc = "trap_done"
    /\ scn.rules.layout = from_counts(FALSE, 0, 1, 0, 0)
    /\ scn.white_can_pass
    /\ scn.rules.move_bound = MaxMoveBound
    /\ scn.candidates.bound = MaxBoxBound
    /\ rounds >= 3
    /\ trap = {}

(***************************************************************************)
(* count_checkmates_in_bound over layouts and bounds.                      *)
(***************************************************************************)
MaxMateBound == 7

\* The rules and the bound handed to count_checkmates_in_bound.
mate_count_input(layout, move_bound, bound) ==
    ChessScenario("count_checkmates_in_bound", layout, move_bound, FALSE, FALSE,
                  InLinfBound(bound, FALSE), AllDomain, NoLaws)

MateCountInputs ==
    {mate_count_input(from_counts(FALSE, 0, 2, 0, 0), 1, bound) : bound \in 0..MaxMateBound}
    \cup
    {mate_count_input(from_counts(FALSE, 0, 2, 0, 0), move_bound, bound) :
        move_bound \in {2, MaxMoveBound}, bound \in 0..4}
    \cup
    {mate_count_input(from_counts(FALSE, 0, 3, 0, 0), 1, bound) : bound \in 0..2}
    \cup
    {mate_count_input(layout, 1, bound) :
        layout \in {from_counts(FALSE, 0, 1, 0, 0), from_counts(FALSE, 1, 0, 0, 0),
                    from_counts(FALSE, 2, 0, 0, 0), from_counts(FALSE, 1, 1, 0, 0),
                    from_counts(TRUE, 0, 1, 0, 0), from_counts(TRUE, 1, 0, 0, 0),
                    from_counts(FALSE, 0, 0, 1, 1), from_counts(FALSE, 1, 0, 0, 1)},
        bound \in 0..3}

MateCountInit ==
    /\ scn \in MateCountInputs
    /\ pc = "count_checkmates"
    /\ trap = {}
    /\ queue = <<>>
    /\ tracker = NoTracker
    /\ cache = NoCache
    /\ scan = NoScan
    /\ strategy = NoStrategy
    /\ rounds = 0
    /\ btm_trap = {}
    /\ g = NoGraph
    /\ tempo = NoResult
    /\ play = NoPlay
    /\ compute_dtm = FALSE
    /\ m = NoGraph
    /\ mate = NoResult
    /\ bundle = NoBundle

MateCountNext == CountCheckmates

SpecMateCount == MateCountInit /\ [][MateCountNext]_vars

\* C34: with two white rooks and nothing else, count_checkmates_in_bound is 0
\* for every bound up to 7: no position with both rooks within the bound is
\* a checkmate.
C34_TwoRooksNeverMate ==
    (pc = "checkmates_counted" /\ scn.rules.layout = from_counts(FALSE, 0, 2, 0, 0))
        => mate.checkmates = 0

\* The count of the test: two rooks, bound 7, and among the counted
\* positions one that gives check.
C34_Witness ==
    /\ pc = "checkmates_counted"
    /\ scn.rules.layout = from_counts(FALSE, 0, 2, 0, 0)
    /\ scn.candidates.bound = MaxMateBound
    /\ mate.checkmates = 0
    /\ is_attacked(scn.rules, ORIGIN,
                   pos_from_coords(scn.rules.layout, <<Coord_new(0, 7), Coord_new(7, 7)>>))

(***************************************************************************)
(* src/arena/graph.rs and src/solve/: the arena of a finite region and the *)
(* safety and reachability solvers on it.  A game is given by what         *)
(* movegen::successors and is_attacked_by_white return for its states.     *)
(***************************************************************************)
NumArenaStates == 2

\* The packed states all_states returns, by index.
ArenaStates == 0..(NumArenaStates - 1)

\* What successors returns for a state: Succ::State entries and whether a
\* Succ::Sink is among them.
Succs == [next : SUBSET ArenaStates, sink : BOOLEAN]

Games ==
    [ kind     : {"game"},
      black    : [ArenaStates -> Succs],
      white    : [ArenaStates -> Succs],
      in_check : SUBSET ArenaStates ]

sink_black == 0

sink_white == 1

\* The node ids of a state: the black node, then the white node.
black_node(idx) == 2 + (2 * idx)

white_node(idx) == 2 + (2 * idx) + 1

turn_of(id) == IF id % 2 = 0 THEN "Black" ELSE "White"

state_of(id) == (id - 2) \div 2

\* succ_ids of a non-sink node, before the sort and the dedup.
succ_ids(game, id) ==
    LET succs == IF turn_of(id) = "Black" THEN game.black[state_of(id)]
                 ELSE game.white[state_of(id)]
    IN  {IF turn_of(id) = "Black" THEN white_node(idx) ELSE black_node(idx) :
            idx \in succs.next}
        \cup (IF succs.sink
              THEN {IF turn_of(id) = "Black" THEN sink_white ELSE sink_black}
              ELSE {})

\* ArenaBuilder::enumerate_all: succ sorted and deduplicated, pred in the
\* order of the loop over the ids.
enumerate_all(game) ==
    LET n == 2 + (2 * NumArenaStates)
    IN  [ built      |-> TRUE,
          sink_black |-> sink_black,
          sink_white |-> sink_white,
          nodes      |->
              [id \in 0..(n - 1) |->
                  [ turn  |-> turn_of(id),
                    state |-> IF id < 2 THEN <<>> ELSE <<state_of(id)>>,
                    succ  |-> IF id < 2 THEN <<id>> ELSE ascending(succ_ids(game, id)),
                    pred  |-> ascending({p \in 2..(n - 1) : id \in succ_ids(game, p)}) ]] ]

Arena_len(arena) == Cardinality(DOMAIN arena.nodes)

is_sink(arena, id) == id = arena.sink_black \/ id = arena.sink_white

\* iter().filter(..).count() over a successor list.
count_succ(succ, kept) == Cardinality({k \in DOMAIN succ : succ[k] \in kept})

\* The ids for which `wanted` holds, in the order of `for id in 0..n`.
pushed_in_order(n, wanted) == ascending({id \in 0..(n - 1) : id \in wanted})

\* safety_trap up to its while loop.
safety_start(arena) ==
    LET n        == Arena_len(arena)
        in_set   == (0..(n - 1)) \ {arena.sink_black, arena.sink_white}
        counted  == [id \in 0..(n - 1) |->
                        IF id \in in_set THEN count_succ(arena.nodes[id].succ, in_set)
                        ELSE 0]
    IN  [ in_set    |-> [id \in 0..(n - 1) |-> id \in in_set],
          out_count |-> counted,
          q         |-> pushed_in_order(n,
                            {id \in in_set :
                                IF arena.nodes[id].turn = "White"
                                THEN counted[id] = 0
                                ELSE counted[id] < Len(arena.nodes[id].succ)}) ]

\* `for &p in &arena.nodes[v].pred` of safety_trap.
RECURSIVE safety_preds(_, _, _)
safety_preds(arena, acc, preds) ==
    IF preds = <<>> THEN acc
    ELSE LET p == Head(preds)
             c == IF acc.out_count[p] > 0 THEN acc.out_count[p] - 1 ELSE acc.out_count[p]
         IN  safety_preds(arena,
                 IF ~acc.in_set[p] THEN acc
                 ELSE IF arena.nodes[p].turn = "White"
                      THEN [in_set    |-> acc.in_set,
                            out_count |-> [acc.out_count EXCEPT ![p] = c],
                            q         |-> IF c = 0 THEN Append(acc.q, p) ELSE acc.q]
                      ELSE [acc EXCEPT !.q = Append(acc.q, p)],
                 Tail(preds))

\* One pass of `while let Some(v) = q.pop_front()` of safety_trap.
safety_pop(arena, acc) ==
    LET v == Head(acc.q)
    IN  IF ~acc.in_set[v] THEN [acc EXCEPT !.q = Tail(acc.q)]
        ELSE safety_preds(arena,
                          [acc EXCEPT !.q = Tail(acc.q), !.in_set[v] = FALSE],
                          arena.nodes[v].pred)

\* checkmate_targets: black, no sink, no successor, the king attacked.
checkmate_targets(arena, game) ==
    [id \in DOMAIN arena.nodes |->
        /\ arena.nodes[id].turn = "Black"
        /\ ~is_sink(arena, id)
        /\ arena.nodes[id].succ = <<>>
        /\ arena.nodes[id].state[1] \in game.in_check]

\* reachability_white up to its while loop.
reachability_start(arena, target) ==
    LET n == Arena_len(arena)
    IN  [ win       |-> target,
          rem_black |-> [id \in 0..(n - 1) |->
                            IF arena.nodes[id].turn = "Black"
                            THEN count_succ(arena.nodes[id].succ,
                                            {s \in 0..(n - 1) : ~target[s]})
                            ELSE 0],
          q         |-> pushed_in_order(n, {id \in 0..(n - 1) : target[id]}) ]

\* Mutation: a black node wins as soon as one successor wins.
RECURSIVE reachability_preds_any_successor(_, _, _)
reachability_preds_any_successor(arena, acc, preds) ==
    IF preds = <<>> THEN acc
    ELSE LET p == Head(preds)
         IN  reachability_preds_any_successor(arena,
                 IF acc.win[p] THEN acc
                 ELSE [acc EXCEPT !.win[p] = TRUE, !.q = Append(acc.q, p)],
                 Tail(preds))

\* `for &p in &arena.nodes[v].pred` of reachability_white.
RECURSIVE reachability_preds(_, _, _)
reachability_preds(arena, acc, preds) ==
    IF preds = <<>> THEN acc
    ELSE LET p == Head(preds)
         IN  reachability_preds(arena,
                 IF acc.win[p] THEN acc
                 ELSE IF arena.nodes[p].turn = "White"
                      THEN [acc EXCEPT !.win[p] = TRUE, !.q = Append(acc.q, p)]
                      ELSE IF acc.rem_black[p] = 0 THEN acc
                      ELSE IF acc.rem_black[p] - 1 = 0 /\ arena.nodes[p].succ # <<>>
                           THEN [acc EXCEPT !.rem_black[p] = 0, !.win[p] = TRUE,
                                            !.q = Append(acc.q, p)]
                           ELSE [acc EXCEPT !.rem_black[p] = acc.rem_black[p] - 1],
                 Tail(preds))

\* ArenaBuilder::new(game).enumerate_all().
ArenaEnumerateAll ==
    /\ pc = "arena_new"
    /\ g' = enumerate_all(scn)
    /\ pc' = "safety_start"
    /\ UNCHANGED <<scn, rounds, trapVars, btm_trap, tempo, play, mateVars, bundle>>

SafetyStart ==
    /\ pc = "safety_start"
    /\ \E acc \in {safety_start(g)} :
          /\ scan' = [in_set |-> acc.in_set, out_count |-> acc.out_count]
          /\ queue' = acc.q
    /\ pc' = "safety_loop"
    /\ UNCHANGED <<scn, rounds, trap, strategy, tracker, cache, tempoVars, mateVars, bundle>>

SafetyPop ==
    /\ pc = "safety_loop"
    /\ queue # <<>>
    /\ \E acc \in {safety_pop(g, [in_set |-> scan.in_set, out_count |-> scan.out_count,
                                  q |-> queue])} :
          /\ scan' = [in_set |-> acc.in_set, out_count |-> acc.out_count]
          /\ queue' = acc.q
    /\ rounds' = rounds + 1
    /\ UNCHANGED <<scn, pc, trap, strategy, tracker, cache, tempoVars, mateVars, bundle>>

\* safety_trap returns in_set.
SafetyReturn ==
    /\ pc = "safety_loop"
    /\ queue = <<>>
    /\ trap' = scan.in_set
    /\ pc' = "targets"
    /\ UNCHANGED <<scn, rounds, queue, strategy, tracker, cache, scan, tempoVars, mateVars, bundle>>

CheckmateTargets ==
    /\ pc = "targets"
    /\ mate' = [kind |-> "targets", target |-> checkmate_targets(g, scn)]
    /\ pc' = "reach_start"
    /\ UNCHANGED <<scn, rounds, trapVars, tempoVars, compute_dtm, m, bundle>>

ReachStart ==
    /\ pc = "reach_start"
    /\ \E acc \in {reachability_start(g, mate.target)} :
          /\ m' = [built |-> TRUE, win |-> acc.win, rem_black |-> acc.rem_black]
          /\ queue' = acc.q
    /\ pc' = "reach_loop"
    /\ UNCHANGED <<scn, rounds, trap, strategy, tracker, cache, scan, tempoVars, compute_dtm, mate, bundle>>

ReachPop ==
    /\ pc = "reach_loop"
    /\ queue # <<>>
    /\ \E acc \in {reachability_preds(g, [win |-> m.win, rem_black |-> m.rem_black,
                                          q |-> Tail(queue)],
                                      g.nodes[Head(queue)].pred)} :
          /\ m' = [built |-> TRUE, win |-> acc.win, rem_black |-> acc.rem_black]
          /\ queue' = acc.q
    /\ rounds' = rounds + 1
    /\ UNCHANGED <<scn, pc, trap, strategy, tracker, cache, scan, tempoVars, compute_dtm, mate, bundle>>

\* reachability_white returns win.
ReachReturn ==
    /\ pc = "reach_loop"
    /\ queue = <<>>
    /\ pc' = "reach_done"
    /\ UNCHANGED <<scn, rounds, trapVars, tempoVars, mateVars, bundle>>

ArenaInit ==
    /\ scn \in Games
    /\ pc = "arena_new"
    /\ trap = {}
    /\ queue = <<>>
    /\ tracker = NoTracker
    /\ cache = NoCache
    /\ scan = NoScan
    /\ strategy = NoStrategy
    /\ rounds = 0
    /\ btm_trap = {}
    /\ g = NoGraph
    /\ tempo = NoResult
    /\ play = NoPlay
    /\ compute_dtm = FALSE
    /\ m = NoGraph
    /\ mate = NoResult
    /\ bundle = NoBundle

ArenaNext ==
    \/ ArenaEnumerateAll
    \/ SafetyStart
    \/ SafetyPop
    \/ SafetyReturn
    \/ CheckmateTargets
    \/ ReachStart
    \/ ReachPop
    \/ ReachReturn

SpecArena == ArenaInit /\ [][ArenaNext]_vars

\* C35: every node of reachability_white(arena, checkmate_targets(arena))
\* is a node of safety_trap(arena), at every moment of the reachability
\* loop and at its return: the checkmate targets are in the safety trap,
\* and no winning black node has the sink among its successors.
C35_ForcedMateInsideSafetyTrap ==
    pc \in {"reach_loop", "reach_done"} =>
        \A id \in DOMAIN g.nodes :
            m.win[id] =>
                /\ trap[id]
                /\ g.nodes[id].turn = "Black" =>
                      \A k \in DOMAIN g.nodes[id].succ :
                          ~is_sink(g, g.nodes[id].succ[k])

\* A mate forced from a black node that is no target, in an arena of which
\* the safety solver pruned a node.
C35_Witness ==
    /\ pc = "reach_done"
    /\ \E id \in DOMAIN g.nodes :
          m.win[id] /\ ~mate.target[id] /\ g.nodes[id].turn = "Black"
    /\ \E id \in DOMAIN g.nodes : ~is_sink(g, id) /\ ~trap[id]

(***************************************************************************)
(* Play from a start at the origin, the king followed or not.              *)
(***************************************************************************)
FrameScenarios ==
    {WithStart(ChessScenario("frame", layout, 2, pass, track, InLinfBound(2, TRUE),
                             AllDomain, NoLaws),
               StartState(to_move, State_new(ORIGIN, pos_from_coords(layout, coords))),
               FALSE) :
        pass \in BOOLEAN, track \in BOOLEAN, to_move \in Side,
        layout \in {from_counts(FALSE, 0, 1, 0, 0)},
        coords \in {<<Coord_new(2, 1)>>, <<Coord_new(1, 1)>>}}
    \cup
    {WithStart(ChessScenario("frame", from_counts(FALSE, 0, 0, 0, 0), 1, TRUE, track,
                             InLinfBound(2, TRUE), AllDomain, NoLaws),
               StartState("Black", State_new(ORIGIN, <<>>)), FALSE) :
        track \in BOOLEAN}

FrameInit ==
    /\ scn \in FrameScenarios
    /\ pc = "chess_play"
    /\ trap = {}
    /\ queue = <<>>
    /\ tracker = NoTracker
    /\ cache = NoCache
    /\ scan = NoScan
    /\ strategy = NoStrategy
    /\ rounds = 0
    /\ btm_trap = {}
    /\ g = NoGraph
    /\ tempo = NoResult
    /\ play = [on |-> TRUE, turn |-> scn.start.to_move, pos |-> scn.start.state]
    /\ compute_dtm = FALSE
    /\ m = NoGraph
    /\ mate = NoResult
    /\ bundle = NoBundle

FrameNext == ChessBlack \/ ChessWhite

SpecFrame == FrameInit /\ [][FrameNext]_vars

\* The king step delta of a black move from `from` to `to`: abs_king has
\* moved by delta if the king is followed and not at all otherwise.
black_frame(from, to) ==
    \E mv \in Range(black_moves_with_delta(scn.rules, from.pos)) :
        /\ to.pos = mv.pos
        /\ to.abs_king = IF scn.track_abs_king THEN coord_add(from.abs_king, mv.delta)
                         ELSE from.abs_king

\* C36: a move of legal_black_moves sets abs_king to abs_king + delta when
\* track_abs_king is true and leaves it alone when it is false; a move of
\* legal_white_moves, the pass included, never changes abs_king; so with
\* track_abs_king = false abs_king stays at the origin it started from.
C36_AbsKingFrame ==
    /\ [](~scn.track_abs_king => play.pos.abs_king = ORIGIN)
    /\ [][(IF play.turn = "Black"
           THEN black_frame(play.pos, play'.pos)
           ELSE play'.pos.abs_king = play.pos.abs_king)]_vars

\* The king is followed and has walked away from the origin.
C36_Witness ==
    /\ scn.track_abs_king
    /\ play.turn = "White"
    /\ chebyshev_norm(play.pos.abs_king) = 2
    /\ play.pos.pos # scn.start.state.pos

(***************************************************************************)
(* Properties of the move cache inside the solve (checked under            *)
(* SpecTracked)                                                            *)
(***************************************************************************)
\* The pruning loop without tracker and cache, run to its fixpoint.
RECURSIVE pruned_to_fixpoint(_)
pruned_to_fixpoint(cur) ==
    IF to_remove(cur) = {} THEN cur ELSE pruned_to_fixpoint(cur \ to_remove(cur))

\* The moves fresh generation returns for all states and both sides.
FreshMoves ==
    MovesHeld([s \in State |-> black_moves_vec(s)])
    + MovesHeld([s \in State |-> replies_vec(s)])

\* C37: every list the cache holds is the list fresh generation returns for
\* its state, under each cache mode and through evictions; a side that the
\* mode does not cache holds nothing; and a solve that returns a set returns
\* the set the pruning loop without cache arrives at, the same for the
\* three cache modes.
C37_CacheIsTransparent ==
    /\ cache # NoCache =>
          /\ \A s \in DOMAIN cache.black : cache.black[s] = black_moves_vec(s)
          /\ \A s \in DOMAIN cache.white : cache.white[s] = replies_vec(s)
          /\ scn.cache_mode = "None" => DOMAIN cache.black = {}
          /\ scn.cache_mode # "BothBounded" => DOMAIN cache.white = {}
    /\ pc = "tk_done" => trap = pruned_to_fixpoint(initial_candidate_set)

\* A solve with a bounded cache of both sides that returned a set after
\* generating more moves than all fresh lists together hold: some list was
\* evicted, generated again and inserted again.
C37_Witness ==
    /\ pc = "tk_done"
    /\ scn.cache_mode = "BothBounded"
    /\ tracker.failed = NoError
    /\ tracker.counts.edges > FreshMoves
    /\ tracker.counts.edges < U64_MAX
    /\ DOMAIN cache.black # {}
    /\ DOMAIN cache.white # {}
    /\ trap # {}

(***************************************************************************)
(* Rules::is_attacked, black_moves_with_delta and white_moves applied to   *)
(* positions with pieces far from the king.                                *)
(***************************************************************************)
MaxAttackBound == 5

\* The squares two-piece positions are drawn from: near and far, on the
\* lines through the king and off them.
GridCoords ==
    {Coord_new(x, y) : x \in {-MaxAttackBound, -2, 0, 2, MaxAttackBound},
                       y \in {-MaxAttackBound, -2, 0, 2, MaxAttackBound}} \ {ORIGIN}

AttackPositions(layout) ==
    IF piece_count(layout) = 1
    THEN enumerate_positions_in_bound(layout, MaxAttackBound, FALSE)
    ELSE UNION {{pos_from_coords(layout, <<c1, c2>>) : c2 \in GridCoords \ {c1}} :
                   c1 \in GridCoords}

AttackLayouts ==
    {from_counts(FALSE, 0, 1, 0, 0), from_counts(FALSE, 0, 0, 1, 0),
     from_counts(FALSE, 1, 0, 0, 0), from_counts(FALSE, 0, 2, 0, 0),
     from_counts(FALSE, 1, 0, 0, 1), from_counts(FALSE, 0, 1, 1, 0)}

AttackInput(layout, move_bound, pos) ==
    WithStart(ChessScenario("rules", layout, move_bound, FALSE, FALSE,
                            InLinfBound(MaxAttackBound, FALSE), AllDomain, NoLaws),
              StartState("Black", State_new(ORIGIN, pos)), FALSE)

AttackInputs(layouts) ==
    UNION {{AttackInput(layout, move_bound, pos) :
               move_bound \in {1, 2}, pos \in AttackPositions(layout)} :
           layout \in layouts}

\* rules.is_attacked(Coord::ORIGIN, &pos)
RulesIsAttacked ==
    /\ pc = "rules_ready"
    /\ mate' = [kind |-> "is_attacked",
                value |-> is_attacked(scn.rules, ORIGIN, scn.start.state.pos)]
    /\ pc' = "attack_tested"
    /\ UNCHANGED <<scn, rounds, trapVars, tempoVars, compute_dtm, m, bundle>>

\* rules.black_moves_with_delta(&pos)
RulesBlackMoves ==
    /\ pc = "rules_ready"
    /\ queue' = black_moves_with_delta(scn.rules, scn.start.state.pos)
    /\ pc' = "black_generated"
    /\ UNCHANGED <<scn, rounds, trap, strategy, tracker, cache, scan, tempoVars, mateVars, bundle>>

\* rules.white_moves(&pos, false)
RulesWhiteMoves ==
    /\ pc = "rules_ready"
    /\ queue' = white_moves(scn.rules, scn.start.state.pos, FALSE)
    /\ pc' = "white_generated"
    /\ UNCHANGED <<scn, rounds, trap, strategy, tracker, cache, scan, tempoVars, mateVars, bundle>>

RulesInit ==
    /\ scn \in AttackInputs(AttackLayouts)
    /\ pc = "rules_ready"
    /\ trap = {}
    /\ queue = <<>>
    /\ tracker = NoTracker
    /\ cache = NoCache
    /\ scan = NoScan
    /\ strategy = NoStrategy
    /\ rounds = 0
    /\ btm_trap = {}
    /\ g = NoGraph
    /\ tempo = NoResult
    /\ play = NoPlay
    /\ compute_dtm = FALSE
    /\ m = NoGraph
    /\ mate = NoResult
    /\ bundle = NoBundle

RulesNext == RulesIsAttacked \/ RulesBlackMoves \/ RulesWhiteMoves

SpecRules == RulesInit /\ [][RulesNext]_vars

\* The geometry of a check, stated on the board: a queen, rook or bishop at
\* c is on one of its lines through the king, and no piece stands on a
\* square strictly between the king and c.
is_slider(kind) == kind \in {"Queen", "Rook", "Bishop"}

on_line_of(kind, c) ==
    /\ c # ORIGIN
    /\ \/ kind \in {"Rook", "Queen"} /\ (c.x = 0 \/ c.y = 0)
       \/ kind \in {"Bishop", "Queen"} /\ abs(c.x) = abs(c.y)

toward(c) == Coord_new(signum(c.x), signum(c.y))

strictly_between(c) == {coord_mul(toward(c), k) : k \in 1..(chebyshev_norm(c) - 1)}

checks_from(rules, pos, i) ==
    /\ ~is_none(pos[i])
    /\ IF is_slider(rules.layout.kinds[i])
       THEN /\ on_line_of(rules.layout.kinds[i], coord(pos[i]))
            /\ \A j \in DOMAIN pos :
                  ~is_none(pos[j]) => coord(pos[j]) \notin strictly_between(coord(pos[i]))
       ELSE {abs(coord(pos[i]).x), abs(coord(pos[i]).y)} = {1, 2}

gives_check(rules, pos) == \E i \in DOMAIN pos : checks_from(rules, pos, i)

\* C38: is_attacked is true exactly when some piece checks along an open
\* line of any length (or by a knight's jump), whatever move_bound is; a
\* king step is generated exactly when the king is not so attacked in the
\* position after the step, so no step straight away from a checking slider
\* along its line is generated; and every move of white_moves takes a queen,
\* rook or bishop between 1 and move_bound squares along one of its lines.
C38_AttacksIgnoreMoveBound ==
    LET rules == scn.rules
        pos   == scn.start.state.pos
    IN  /\ pc = "attack_tested" => (mate.value <=> gives_check(rules, pos))
        /\ pc = "black_generated" =>
              /\ \A delta \in Range(KING_STEPS) :
                    (\E k \in DOMAIN queue : queue[k].delta = delta)
                    <=> ~gives_check(rules, black_step_next(rules, pos, delta))
              /\ \A k \in DOMAIN queue :
                    queue[k].pos = black_step_next(rules, pos, queue[k].delta)
              /\ \A i \in DOMAIN pos :
                    (is_slider(rules.layout.kinds[i]) /\ checks_from(rules, pos, i)) =>
                        \A k \in DOMAIN queue :
                            queue[k].delta # coord_neg(toward(coord(pos[i])))
        /\ pc = "white_generated" =>
              \A k \in DOMAIN queue :
                  \E i \in DOMAIN pos : \E j \in DOMAIN queue[k] :
                      LET v == coord_sub(coord(queue[k][j]), coord(pos[i]))
                      IN  /\ queue[k] = canonicalize(set_square(pos, i, queue[k][j]),
                                                     rules.layout)
                          /\ v # ORIGIN
                          /\ is_slider(rules.layout.kinds[i]) =>
                                /\ on_line_of(rules.layout.kinds[i], v)
                                /\ chebyshev_norm(v) <= rules.move_bound

\* move_bound is 1 and a single rook stands five squares up the king's open
\* file: the king is in check, it has moves, and none of them is along the
\* file.
C38_Witness ==
    /\ pc = "black_generated"
    /\ scn.rules.move_bound = 1
    /\ scn.rules.layout = from_counts(FALSE, 0, 1, 0, 0)
    /\ scn.start.state.pos = <<from_coord(Coord_new(0, MaxAttackBound))>>
    /\ is_attacked(scn.rules, ORIGIN, scn.start.state.pos)
    /\ queue # <<>>
    /\ \A k \in DOMAIN queue : queue[k].delta.x # 0

(***************************************************************************)
(* States without a black move in the pruning loop (checked under          *)
(* SpecCandidates)                                                         *)
(***************************************************************************)
\* The states of `cur` from which Black has no legal move.
without_black_move(cur) == {s \in cur : legal_black_moves(s) = {}}

\* C39: from the candidate set on, a step of the pruning loop only removes
\* states, and never one from which Black has no legal move (a checkmate, or
\* a stalemate that remove_stalemates = false left among the candidates); so
\* every such candidate is in the trap the loop returns.
C39_NoMoveStatesStay ==
    [][pc = "trap_prune" =>
          /\ trap' \subseteq trap
          /\ without_black_move(trap) \subseteq trap'
          /\ without_black_move(trap) \cap to_remove(trap) = {}]_vars

\* The loop has returned after removing states in at least one round, and
\* the returned trap holds a checkmate and, remove_stalemates being false, a
\* stalemate.
C39_Witness ==
    /\ pc = "trap_done"
    /\ rounds >= 2
    /\ ~scn.remove_stalemates
    /\ \E s \in trap : is_checkmate_with_laws(s)
    /\ \E s \in trap : is_stalemate_with_laws(s)

(***************************************************************************)
(* src/core/square.rs: from_coord and coord on every coordinate of the     *)
(* component width                                                         *)
(***************************************************************************)
\* The values of a signed component (i32 in the source).
Component == (-(HalfRange \div 2))..(HalfRange \div 2 - 1)

SquareInputs ==
    {[kind |-> "square", c |-> Coord_new(x, y), debug_assertions |-> dbg] :
        x \in Component, y \in Component, dbg \in BOOLEAN}

\* Square::from_coord(c)
SquareFromCoord ==
    /\ pc = "square_new"
    /\ mate' = [kind |-> "square", sq |-> from_coord(scn.c)]
    /\ pc' = "square_packed"
    /\ UNCHANGED <<scn, rounds, trapVars, tempoVars, compute_dtm, m, bundle>>

\* sq.coord(): debug_assert!(!self.is_none()) panics in a build with debug
\* assertions and is compiled out otherwise.
SquareCoord ==
    /\ pc = "square_packed"
    /\ IF scn.debug_assertions /\ is_none(mate.sq)
       THEN /\ pc' = "square_panic"
            /\ UNCHANGED mate
       ELSE /\ pc' = "square_unpacked"
            /\ mate' = [kind |-> "coord", sq |-> mate.sq, c |-> coord(mate.sq)]
    /\ UNCHANGED <<scn, rounds, trapVars, tempoVars, compute_dtm, m, bundle>>

SquareInit ==
    /\ scn \in SquareInputs
    /\ pc = "square_new"
    /\ trap = {}
    /\ queue = <<>>
    /\ tracker = NoTracker
    /\ cache = NoCache
    /\ scan = NoScan
    /\ strategy = NoStrategy
    /\ rounds = 0
    /\ btm_trap = {}
    /\ g = NoGraph
    /\ tempo = NoResult
    /\ play = NoPlay
    /\ compute_dtm = FALSE
    /\ m = NoGraph
    /\ mate = NoResult
    /\ bundle = NoBundle

SquareNext == SquareFromCoord \/ SquareCoord

SpecSquare == SquareInit /\ [][SquareNext]_vars

\* C40: for every coordinate c with components of the component width,
\* Square::from_coord(c) is different from Square::NONE, and
\* Square::from_coord(c).coord() returns c.
C40_PackingIsLossless ==
    /\ pc = "square_packed" => ~is_none(mate.sq)
    /\ pc # "square_panic"
    /\ pc = "square_unpacked" => mate.c = scn.c

\* What the packing does guarantee: the packed word determines the
\* coordinate, the only coordinate packed to NONE is (least component, 0),
\* and coord() returns c whenever it returns.
C40_PackingCollidesOnlyAtLeastX ==
    /\ pc = "square_packed" =>
          /\ coord(mate.sq) = scn.c
          /\ is_none(mate.sq) <=> scn.c = Coord_new(-(HalfRange \div 2), 0)
    /\ pc = "square_panic" => scn.c = Coord_new(-(HalfRange \div 2), 0)
    /\ pc = "square_unpacked" => mate.c = scn.c

\* The coordinate with the least x and y = 0 has been packed, and the square
\* is NONE.
C40_Witness ==
    /\ pc = "square_packed"
    /\ scn.c = Coord_new(-(HalfRange \div 2), 0)
    /\ is_none(mate.sq)

====
